---- MODULE Spec2Model ----
(***************************************************************************)
(* Synchronized-player engine of dansch1/sync-video: the AtomPlayer state  *)
(* machine, TickPlayer, ClusterPlayer and OffsetPlayer.                     *)
(*                                                                         *)
(* JavaScript's event loop is modelled directly.  Synchronous code,        *)
(* including the synchronous delivery of notifications to listeners, is    *)
(* executed by a small interpreter over an explicit call stack (Step);     *)
(* an async function that reaches an `await` is parked in `susp` and       *)
(* resumed by a job of the microtask queue `mq`, in FIFO order (Run).      *)
(* One step of the model is a task of the event loop (a setTimeout,        *)
(* animation-frame or setInterval callback) or a call by the caller, each  *)
(* followed by the microtasks up to the point where the caller, who awaits *)
(* its calls, runs again; there the caller issues its next call or ends.   *)
(*                                                                         *)
(* Times are milliseconds, in multiples of DriftThreshold.                 *)
(***************************************************************************)
EXTENDS Integers, Sequences, FiniteSets, TLC

VARIABLES
    topo,      \* which tree has been constructed
    pl,        \* the fields of every player object
    susp,      \* async function invocations parked at an await
    mq,        \* the microtask queue
    initQ,     \* pending setTimeout callbacks of AtomPlayer.init, FIFO
    initWait,  \* per player: invocations awaiting loadInit
    probe      \* history: the last call of the caller

vars == <<topo, pl, susp, mq, initQ, initWait, probe>>

-----------------------------------------------------------------------------
(* Bounds of the model *)

MaxUnits == 2
\* the number of calls that wait for an init() at the same time
MaxEarly == 2
\* the number of promises of video.play() that are pending at the same time
MaxPlays == 1
\* the number of steps of synchronous code that one status assignment may
\* set off
CascadeSteps == 100
\* the time between two animation frames, in units of DriftThreshold
MaxLate == 3

(* Program constants *)

DriftThreshold == 1000

Times == {k * DriftThreshold : k \in 0..(MaxUnits + 2)}

-----------------------------------------------------------------------------
(* SyncPlayerStatus *)

Ready == "Ready"
Pause == "Pause"
Buffering == "Buffering"
Playing == "Playing"
Ended == "Ended"

SyncPlayerStatus == {Ready, Pause, Buffering, Playing, Ended}

-----------------------------------------------------------------------------
(* The constructed trees.  Players are numbered in construction order,     *)
(* which is the order of their init timeouts.                              *)
(*   "tick":    1 = TickPlayer                                             *)
(*   "offset":  1 = wrapped TickPlayer, 2 = OffsetPlayer, 3 = its timer    *)
(*   "cluster": 1 = rowPlayer, 2 = colPlayer (TickPlayers), 3 = Cluster    *)
(*   "sync":    1..3 = an OffsetPlayer as in "offset", 4 = TickPlayer,     *)
(*              5 = ClusterPlayer of 2 and 4, as SyncPlayer combines them  *)
(*   "sync3":   1..3 = TickPlayers, 4 = ClusterPlayer of 1 and 2,          *)
(*              5 = ClusterPlayer of 4 and 3: SyncPlayer([1, 2, 3])        *)
(*   "video":   1 = rowPlayer, 2 = colPlayer (VideoPlayers), 3 = Cluster   *)

ShapeTick ==
    [n |-> 1, root |-> 1,
     kind   |-> <<"tick">>,
     parent |-> <<0>>, first |-> <<0>>, second |-> <<0>>]

ShapeOffset ==
    [n |-> 3, root |-> 2,
     kind   |-> <<"tick", "offset", "tick">>,
     parent |-> <<2, 0, 2>>, first |-> <<0, 1, 0>>, second |-> <<0, 3, 0>>]

ShapeCluster ==
    [n |-> 3, root |-> 3,
     kind   |-> <<"tick", "tick", "cluster">>,
     parent |-> <<3, 3, 0>>, first |-> <<0, 0, 1>>, second |-> <<0, 0, 2>>]

ShapeSync ==
    [n |-> 5, root |-> 5,
     kind   |-> <<"tick", "offset", "tick", "tick", "cluster">>,
     parent |-> <<2, 5, 2, 5, 0>>,
     first  |-> <<0, 1, 0, 0, 2>>,
     second |-> <<0, 3, 0, 0, 4>>]

ShapeSync3 ==
    [n |-> 5, root |-> 5,
     kind   |-> <<"tick", "tick", "tick", "cluster", "cluster">>,
     parent |-> <<4, 4, 5, 5, 0>>,
     first  |-> <<0, 0, 0, 1, 4>>,
     second |-> <<0, 0, 0, 2, 3>>]

ShapeVideo ==
    [n |-> 3, root |-> 3,
     kind   |-> <<"video", "video", "cluster">>,
     parent |-> <<3, 3, 0>>, first |-> <<0, 0, 1>>, second |-> <<0, 0, 2>>]

Shape(t) ==
    CASE t = "tick" -> ShapeTick
      [] t = "offset" -> ShapeOffset
      [] t = "cluster" -> ShapeCluster
      [] t = "sync" -> ShapeSync
      [] t = "sync3" -> ShapeSync3
      [] t = "video" -> ShapeVideo

Topologies == {"tick", "offset", "cluster"}

Players(t) == 1..Shape(t).n

-----------------------------------------------------------------------------
(* Interpreter state: a record `s` holding the variables the synchronous   *)
(* code reads and writes, plus the synchronous call stack.                 *)

Kind(s, p) == s.shape.kind[p]
Parent(s, p) == s.shape.parent[p]
\* rowPlayer of a ClusterPlayer, player of an OffsetPlayer
First(s, p) == s.shape.first[p]
\* colPlayer of a ClusterPlayer, timer of an OffsetPlayer
Second(s, p) == s.shape.second[p]

Frame(fn, p, ms) ==
    [fn |-> fn, p |-> p, pc |-> 0, ms |-> ms, x |-> "", kx |-> "", y |-> 0,
     id |-> 0, ret |-> "none", w |-> 0, nd |-> 0, jn |-> 0, first |-> TRUE]

Top(s) == s.stack[Len(s.stack)]
Pop(s) == [s EXCEPT !.stack = SubSeq(@, 1, Len(@) - 1)]
Goto(s, pc) == [s EXCEPT !.stack[Len(s.stack)].pc = pc]
Push(s, f) == [s EXCEPT !.stack = Append(@, f)]

UsedIds(s) == {s.stack[i].id : i \in DOMAIN s.stack} \cup DOMAIN s.susp
                  \cup {s.mq[i].f : i \in DOMAIN s.mq}
FreshId(s) == CHOOSE k \in 1..(Cardinality(UsedIds(s)) + 1) :
                 /\ k \notin UsedIds(s)
                 /\ \A j \in 1..(k - 1) : j \in UsedIds(s)

Park(susp_, f) == [i \in DOMAIN susp_ \cup {f.id} |-> IF i = f.id THEN f ELSE susp_[i]]
Unpark(susp_, k) == [i \in DOMAIN susp_ \ {k} |-> susp_[i]]

ResumeJob(k) == [t |-> "resume", f |-> k]
ElemJob(k) == [t |-> "elem", f |-> k]

\* A synchronous call: the caller continues at `next` when the callee returns.
CallSync(s, f, next) == Push(Goto(s, next), f)

\* A call of an async function (frame g): its body runs synchronously up to
\* its first await.  ret = "await": the caller awaits the returned promise;
\* ret = "join": the promise is an element of the caller's Promise.all;
\* ret = "none": the promise is dropped.
CallAsync(s, g, ret, next) ==
    LET s1 == Goto(s, next)
    IN Push(s1, [g EXCEPT !.id = FreshId(s1), !.ret = ret, !.w = Top(s).id])

CallerJob(k) == [t |-> "caller", f |-> k]

\* Return from the running function.  For an async function this resolves its
\* promise: a caller that already awaits it gets a job on the microtask queue.
\* ret = "caller": the function was called from outside the engine, by a
\* caller that awaits it.
Return(s) ==
    LET f == Top(s)
        s1 == Pop(s)
    IN CASE f.ret = "none" -> s1
         [] f.ret = "caller" ->
              [s1 EXCEPT !.mq = Append(@, CallerJob(f.id))]
         [] f.ret \in {"await", "join"} /\ f.first ->
              [s1 EXCEPT !.stack[Len(s1.stack)].nd = @ + 1]
         [] f.ret = "await" /\ ~f.first ->
              [s1 EXCEPT !.mq = Append(@, ResumeJob(f.w))]
         [] f.ret = "join" /\ ~f.first ->
              [s1 EXCEPT !.mq = Append(@, ElemJob(f.w))]

\* `await promise` of the call just made: park the running function; if the
\* promise is already resolved its continuation is queued at once.
Await(s, next) ==
    LET f == Top(s)
        g == [f EXCEPT !.pc = next, !.first = FALSE, !.nd = 0]
    IN [Pop(s) EXCEPT !.susp = Park(@, g),
                      !.mq = IF f.nd > 0 THEN Append(@, ResumeJob(f.id)) ELSE @]

\* `await Promise.all([a, b])` of the two calls just made: every element
\* already resolved queues its resolve-element job at once.
AwaitAll(s, next) ==
    LET f == Top(s)
        g == [f EXCEPT !.pc = next, !.first = FALSE, !.nd = 0, !.jn = 2]
    IN [Pop(s) EXCEPT !.susp = Park(@, g),
                      !.mq = @ \o [i \in 1..f.nd |-> ElemJob(f.id)]]

\* `await this.loadInit` while the promise of init() is pending.
AwaitInit(s, next) ==
    LET f == Top(s)
        g == [f EXCEPT !.pc = next, !.first = FALSE, !.nd = 0]
    IN [Pop(s) EXCEPT !.susp = Park(@, g),
                      !.initWait[f.p] = Append(@, f.id)]

\* history: this.emit(ev) by player p of "status", "ratechange" and
\* "visibilitychange", with the value the property then has, and the
\* invocation of a subclass hook, in the order in which they happen within
\* the running task.  ("timeupdate" and "durationchange" are emitted exactly
\* when currentTime and duration change.)
Emit(s, p, ev, v, n) ==
    [s EXCEPT !.log = Append(@, [ev |-> ev, p |-> p, v |-> v, n |-> n])]

-----------------------------------------------------------------------------
(* AtomPlayer: the properties *)

RECURSIVE isReady(_, _)
isReady(s, p) ==
    IF Kind(s, p) = "cluster"
    THEN isReady(s, First(s, p)) /\ isReady(s, Second(s, p))
    ELSE s.pl[p].initStatus = "Ready"

isPlaying(s, p) == s.pl[p].status \in {Playing, Buffering}

\* A longer player that is always the rowPlayer
longerPlayer_row(s, c) == First(s, c)

longerPlayer(s, c) ==
    IF s.pl[First(s, c)].duration >= s.pl[Second(s, c)].duration
    THEN First(s, c) ELSE Second(s, c)

\* The currentTime and duration setters, with the synchronous delivery of
\* "timeupdate" / "durationchange" to the parent's listener (the listeners of
\* these two notifications only assign currentTime / duration of the parent).
RECURSIVE set_currentTime(_, _, _)
set_currentTime(s, p, ms) ==
    IF s.pl[p].currentTime = ms THEN s
    ELSE LET s1 == [s EXCEPT !.pl[p].currentTime = ms]
             q == Parent(s, p)
         IN CASE q = 0 -> s1
              [] q # 0 /\ ~s1.pl[q].listening -> s1
              [] q # 0 /\ s1.pl[q].listening /\ Kind(s, q) = "cluster" ->
                   \* ClusterPlayer.updateCurrentTime
                   set_currentTime(s1, q, s1.pl[longerPlayer(s1, q)].currentTime)
              [] q # 0 /\ s1.pl[q].listening /\ Kind(s, q) = "offset" ->
                   IF s1.pl[q].currentPlayer # p THEN s1
                   ELSE IF p = First(s, q)
                        THEN set_currentTime(s1, q, ms + s1.pl[q].offset)
                        ELSE set_currentTime(s1, q, ms)

RECURSIVE set_duration(_, _, _)
set_duration(s, p, ms) ==
    IF s.pl[p].duration = ms THEN s
    ELSE LET s1 == [s EXCEPT !.pl[p].duration = ms]
             q == Parent(s, p)
         IN CASE q = 0 -> s1
              [] q # 0 /\ ~s1.pl[q].listening -> s1
              [] q # 0 /\ s1.pl[q].listening /\ Kind(s, q) = "cluster" ->
                   \* ClusterPlayer.updateDuration
                   set_duration(s1, q, s1.pl[longerPlayer(s1, q)].duration)
              [] q # 0 /\ s1.pl[q].listening /\ Kind(s, q) = "offset" ->
                   set_duration(s1, q, s1.pl[Second(s, q)].duration
                                         + s1.pl[First(s, q)].duration)

\* A playback rate is stored as the integer k that stands for the double
\* k / 1000, and assigned as a number of ten-thousandths.
\* Inexact: the k of the model for which (k / 1000) * 1000 < k in IEEE 754
\* double arithmetic: 1.005 * 1000 = 1004.9999999999999
Inexact == {1005}

\* private _playbackRate = 1
RateOne == 1000

\* Math.floor(rate * 1000) of the stored double k / 1000
Thousandths(k) == IF k \in Inexact THEN k - 1 ELSE k

\* Math.floor(value * 1000) of the assigned value
FloorTimes1000(value) ==
    IF value % 10 = 0 THEN Thousandths(value \div 10) ELSE value \div 10

\* normalize(rate) = Math.floor(rate * 1000) / 1000
normalize(value) == FloorTimes1000(value)

\* An isEqual that compares the two doubles themselves
isEqual_exact(rate1, rate2) == rate1 = rate2

\* isEqual(rate1, rate2), of two stored or normalized rates
isEqual(rate1, rate2) == Thousandths(rate1) = Thousandths(rate2)

\* Math.floor(ms) of a time given in tenths of a millisecond
MsFloor(tenths) == tenths \div 10

\* The visible setter ("visibilitychange" has no listener inside the engine).
set_visible(s, p, v) ==
    IF s.pl[p].visible = v THEN s
    ELSE Emit([s EXCEPT !.pl[p].visible = v], p, "visibilitychange",
              IF v THEN "true" ELSE "false", 0)

-----------------------------------------------------------------------------
(* Virtual dispatch of the public operations and of the subclass hooks *)

\* player.ready() / play() / pause() / stop() / seek(ms)
Method(s, p, op, ms) ==
    IF Kind(s, p) = "cluster"
    THEN [Frame("ClusterPlayer_op", p, ms) EXCEPT !.x = op]
    ELSE Frame(op, p, ms)

\* this.readyImpl() / playImpl() / pauseImpl() / stopImpl() / seekImpl(ms)
Impl(s, p, op, ms) ==
    CASE Kind(s, p) = "tick" -> Frame("TickPlayer_" \o op \o "Impl", p, ms)
      [] Kind(s, p) = "offset" -> Frame("OffsetPlayer_" \o op \o "Impl", p, ms)
      [] Kind(s, p) = "video" -> Frame("VideoPlayer_" \o op \o "Impl", p, ms)
      [] Kind(s, p) = "cluster" ->
           IF op = "seek" THEN Frame("ClusterPlayer_seekImpl", p, ms)
           ELSE [Frame("ClusterPlayer_impl", p, ms) EXCEPT !.x = op]

\* `this.status = v`
StatusFrame(p, v) == [Frame("set_status", p, 0) EXCEPT !.x = v]

-----------------------------------------------------------------------------
(* AtomPlayer *)

\* The status setter; "status" is delivered synchronously to the listener the
\* parent registered (ClusterPlayer: one listener for either child;
\* OffsetPlayer: one for the player, an async one for the timer).
set_status(s, f) ==
    LET p == f.p
        q == Parent(s, p)
    IN CASE f.pc = 0 ->
              IF s.pl[p].ignoreSetStatus \/ s.pl[p].status = f.x THEN Return(s)
              ELSE LET s1 == Emit([s EXCEPT !.pl[p].status = f.x], p, "status", f.x, 0)
                   IN (CASE q = 0 -> Return(s1)
                        [] q # 0 /\ ~s1.pl[q].listening -> Return(s1)
                        [] q # 0 /\ s1.pl[q].listening /\ Kind(s, q) = "cluster" ->
                             CallSync(s1, Frame("ClusterPlayer_onStatus", q, p), 1)
                        [] q # 0 /\ s1.pl[q].listening /\ Kind(s, q) = "offset" ->
                             IF p = First(s, q)
                             THEN CallSync(s1, Frame("OffsetPlayer_onPlayerStatus", q, 0), 1)
                             ELSE CallAsync(s1, Frame("OffsetPlayer_onTimerStatus", q, 0), "none", 1))
         [] f.pc = 1 -> Return(s)

\* init(), from the point where the setTimeout callback has run
AtomPlayer_init(s, f) ==
    CASE f.pc = 1 ->
           \* await this.initImpl(): a promise that is already resolved
           Await([s EXCEPT !.stack[Len(s.stack)].nd = 1,
                           !.pl[f.p].initImpls = @ + 1], 2)
      [] f.pc = 2 ->
           LET s1 == [s EXCEPT !.pl[f.p].initStatus = "Ready",
                               !.pl[f.p].readyEmits = @ + 1,
                               !.pl[f.p].ignoreSetStatus = FALSE,
                               !.mq = @ \o [i \in 1..Len(s.initWait[f.p]) |->
                                               ResumeJob(s.initWait[f.p][i])],
                               !.initWait[f.p] = <<>>]
           IN Return(s1)

AtomPlayer_ready(s, f) ==
    CASE f.pc = 0 ->
           IF ~isReady(s, f.p) THEN CallSync(s, StatusFrame(f.p, Buffering), 1)
           ELSE Goto(s, 2)
      [] f.pc = 1 -> AwaitInit(s, 2)
      [] f.pc = 2 ->
           IF s.pl[f.p].status # Ready THEN CallSync(s, StatusFrame(f.p, Ready), 3)
           ELSE Return(s)
      [] f.pc = 3 -> CallAsync(s, Impl(s, f.p, "ready", 0), "await", 4)
      [] f.pc = 4 -> Await(s, 5)
      [] f.pc = 5 -> Return(s)

\* A play that calls playImpl() whatever the status is
AtomPlayer_play_always(s, f) ==
    CASE f.pc = 0 ->
           IF ~isReady(s, f.p) THEN CallSync(s, StatusFrame(f.p, Buffering), 1)
           ELSE Goto(s, 2)
      [] f.pc = 1 -> AwaitInit(s, 2)
      [] f.pc = 2 ->
           CallAsync(s, Impl(s, f.p, "play", 0), "await", 3)
      [] f.pc = 3 -> Await(s, 4)
      [] f.pc = 4 -> Return(s)

AtomPlayer_play(s, f) ==
    CASE f.pc = 0 ->
           IF ~isReady(s, f.p) THEN CallSync(s, StatusFrame(f.p, Buffering), 1)
           ELSE Goto(s, 2)
      [] f.pc = 1 -> AwaitInit(s, 2)
      [] f.pc = 2 ->
           IF s.pl[f.p].status # Playing /\ s.pl[f.p].status # Ended
           THEN CallAsync(s, Impl(s, f.p, "play", 0), "await", 3)
           ELSE Return(s)
      [] f.pc = 3 -> Await(s, 4)
      [] f.pc = 4 -> Return(s)

\* A pause that does not wait for the initialization
AtomPlayer_pause_now(s, f) ==
    CASE f.pc = 0 -> Goto(s, 1)
      [] f.pc = 1 ->
           IF s.pl[f.p].status # Pause /\ s.pl[f.p].status # Ended
           THEN CallSync(s, StatusFrame(f.p, Pause), 2)
           ELSE Return(s)
      [] f.pc = 2 -> CallAsync(s, Impl(s, f.p, "pause", 0), "await", 3)
      [] f.pc = 3 -> Await(s, 4)
      [] f.pc = 4 -> Return(s)

AtomPlayer_pause(s, f) ==
    CASE f.pc = 0 -> IF ~isReady(s, f.p) THEN AwaitInit(s, 1) ELSE Goto(s, 1)
      [] f.pc = 1 ->
           IF s.pl[f.p].status # Pause /\ s.pl[f.p].status # Ended
           THEN CallSync(s, StatusFrame(f.p, Pause), 2)
           ELSE Return(s)
      [] f.pc = 2 -> CallAsync(s, Impl(s, f.p, "pause", 0), "await", 3)
      [] f.pc = 3 -> Await(s, 4)
      [] f.pc = 4 -> Return(s)

\* A stop that does not set ignoreSetStatus around its two hooks
AtomPlayer_stop_loud(s, f) ==
    CASE f.pc = 0 -> IF ~isReady(s, f.p) THEN AwaitInit(s, 1) ELSE Goto(s, 1)
      [] f.pc = 1 ->
           IF s.pl[f.p].status = Ended THEN Return(s)
           ELSE CallSync(s, StatusFrame(f.p, Ended), 2)
      [] f.pc = 2 ->
           CallAsync(s,
                     Impl(s, f.p, "ready", 0), "await", 3)
      [] f.pc = 3 -> Await(s, 4)
      [] f.pc = 4 -> CallAsync(s, Impl(s, f.p, "stop", 0), "await", 5)
      [] f.pc = 5 -> Await(s, 6)
      [] f.pc = 6 -> Return([s EXCEPT !.pl[f.p].ignoreSetStatus = FALSE])

AtomPlayer_stop(s, f) ==
    CASE f.pc = 0 -> IF ~isReady(s, f.p) THEN AwaitInit(s, 1) ELSE Goto(s, 1)
      [] f.pc = 1 ->
           IF s.pl[f.p].status = Ended THEN Return(s)
           ELSE CallSync(s, StatusFrame(f.p, Ended), 2)
      [] f.pc = 2 ->
           CallAsync([s EXCEPT !.pl[f.p].ignoreSetStatus = TRUE],
                     Impl(s, f.p, "ready", 0), "await", 3)
      [] f.pc = 3 -> Await(s, 4)
      [] f.pc = 4 -> CallAsync(s, Impl(s, f.p, "stop", 0), "await", 5)
      [] f.pc = 5 -> Await(s, 6)
      [] f.pc = 6 -> Return([s EXCEPT !.pl[f.p].ignoreSetStatus = FALSE])

\* A seek that takes its argument as it is
AtomPlayer_seek_raw(s, f) ==
    LET ms == f.ms
    IN CASE f.pc = 0 -> IF ~isReady(s, f.p) THEN AwaitInit(s, 1) ELSE Goto(s, 1)
         [] f.pc = 1 ->
              (CASE ms = s.pl[f.p].currentTime -> Return(s)
                [] ms # s.pl[f.p].currentTime /\ ms >= s.pl[f.p].duration ->
                     CallAsync(s, Method(s, f.p, "stop", 0), "await", 6)
                [] ms # s.pl[f.p].currentTime /\ ms < s.pl[f.p].duration ->
                     \* lastStatus
                     CallAsync([s EXCEPT !.stack[Len(s.stack)].x = s.pl[f.p].status],
                               Impl(s, f.p, "seek", ms), "await", 2))
         [] f.pc = 2 -> Await(s, 3)
         [] f.pc = 3 ->
              (CASE f.x \in {Ready, Ended} ->
                     CallAsync(s, Method(s, f.p, "ready", 0), "await", 4)
                [] f.x = Pause ->
                     CallAsync(s, Method(s, f.p, "pause", 0), "await", 4)
                [] f.x \in {Buffering, Playing} ->
                     CallAsync(s, Method(s, f.p, "play", 0), "await", 4))
         [] f.pc = 4 -> Await(s, 5)
         [] f.pc = 5 -> Return(s)
         [] f.pc = 6 -> Await(s, 7)
         [] f.pc = 7 -> Return(s)

\* A seek that leaves the player Ready whatever its status was
AtomPlayer_seek_ready(s, f) ==
    LET ms == IF f.ms > 0 THEN f.ms ELSE 0
    IN CASE f.pc = 0 -> IF ~isReady(s, f.p) THEN AwaitInit(s, 1) ELSE Goto(s, 1)
         [] f.pc = 1 ->
              (CASE ms = s.pl[f.p].currentTime -> Return(s)
                [] ms # s.pl[f.p].currentTime /\ ms >= s.pl[f.p].duration ->
                     CallAsync(s, Method(s, f.p, "stop", 0), "await", 6)
                [] ms # s.pl[f.p].currentTime /\ ms < s.pl[f.p].duration ->
                     \* lastStatus
                     CallAsync([s EXCEPT !.stack[Len(s.stack)].x = s.pl[f.p].status],
                               Impl(s, f.p, "seek", ms), "await", 2))
         [] f.pc = 2 -> Await(s, 3)
         [] f.pc = 3 ->
              CallAsync(s, Method(s, f.p, "ready", 0), "await", 4)
         [] f.pc = 4 -> Await(s, 5)
         [] f.pc = 5 -> Return(s)
         [] f.pc = 6 -> Await(s, 7)
         [] f.pc = 7 -> Return(s)

AtomPlayer_seek(s, f) ==
    LET ms == IF f.ms > 0 THEN f.ms ELSE 0
    IN CASE f.pc = 0 -> IF ~isReady(s, f.p) THEN AwaitInit(s, 1) ELSE Goto(s, 1)
         [] f.pc = 1 ->
              (CASE ms = s.pl[f.p].currentTime -> Return(s)
                [] ms # s.pl[f.p].currentTime /\ ms >= s.pl[f.p].duration ->
                     CallAsync(s, Method(s, f.p, "stop", 0), "await", 6)
                [] ms # s.pl[f.p].currentTime /\ ms < s.pl[f.p].duration ->
                     \* lastStatus
                     CallAsync([s EXCEPT !.stack[Len(s.stack)].x = s.pl[f.p].status],
                               Impl(s, f.p, "seek", ms), "await", 2))
         [] f.pc = 2 -> Await(s, 3)
         [] f.pc = 3 ->
              (CASE f.x \in {Ready, Ended} ->
                     CallAsync(s, Method(s, f.p, "ready", 0), "await", 4)
                [] f.x = Pause ->
                     CallAsync(s, Method(s, f.p, "pause", 0), "await", 4)
                [] f.x \in {Buffering, Playing} ->
                     CallAsync(s, Method(s, f.p, "play", 0), "await", 4))
         [] f.pc = 4 -> Await(s, 5)
         [] f.pc = 5 -> Return(s)
         [] f.pc = 6 -> Await(s, 7)
         [] f.pc = 7 -> Return(s)

\* destroy(): flushAll() runs the disposers registered with _sideEffect: the
\* listeners this player put on its children, and a TickPlayer's _stopTimer.
\* Only ClusterPlayer overrides destroy().
RECURSIVE destroy(_, _)
destroy(s, p) ==
    LET s1 == [s EXCEPT !.pl[p].listening = FALSE,
                        !.pl[p].destroyed = TRUE,
                        !.pl[p].playRafTicket =
                            IF Kind(s, p) = "tick" THEN "NaN" ELSE @]
    IN IF Kind(s, p) = "cluster"
       THEN destroy(destroy([s1 EXCEPT !.pl[p].stopFrameDropCheck = FALSE],
                            First(s, p)),
                    Second(s, p))
       ELSE s1

-----------------------------------------------------------------------------
(* TickPlayer *)

\* window.cancelAnimationFrame(playRafTicket): the variable keeps its value
cancelAnimationFrame(ticket) == IF ticket = "live" THEN "stale" ELSE ticket

\* _startTimer(startTime, playbackRate), with the first run of playRaf: no
\* time has elapsed, so currentTime = startTime; at or past the duration the
\* player stops itself, else the next frame is requested.
TickPlayer_startTimer(s, p, startTime, next) ==
    LET s1 == [s EXCEPT !.pl[p].playRafTicket = cancelAnimationFrame(@)]
        s2 == set_currentTime(s1, p, startTime)
    IN IF s2.pl[p].currentTime >= s2.pl[p].duration
       THEN CallAsync(s2, Method(s2, p, "stop", 0), "none", next)
       ELSE Goto([s2 EXCEPT !.pl[p].playRafTicket = "live"], next)

\* _stopTimer()
TickPlayer_stopTimer(s, p) == [s EXCEPT !.pl[p].playRafTicket = "NaN"]

\* _resetTimer(startTime, playbackRate)
TickPlayer_resetTimer(s, p, startTime, next) ==
    IF s.pl[p].playRafTicket # "NaN"
    THEN TickPlayer_startTimer(s, p, startTime, next)
    ELSE Goto(set_currentTime(s, p, startTime), next)

\* playRaf as the animation-frame callback; f.ms is the time it computes
TickPlayer_playRaf(s, f) ==
    CASE f.pc = 0 ->
           LET s1 == set_currentTime([s EXCEPT !.pl[f.p].playRafTicket = "stale"],
                                     f.p, f.ms)
           IN IF s1.pl[f.p].currentTime >= s1.pl[f.p].duration
              THEN CallAsync(s1, Method(s1, f.p, "stop", 0), "none", 1)
              ELSE Return([s1 EXCEPT !.pl[f.p].playRafTicket = "live"])
      [] f.pc = 1 -> Return(s)

TickPlayer_readyImpl(s, f) == Return(TickPlayer_stopTimer(s, f.p))

TickPlayer_playImpl(s, f) ==
    CASE f.pc = 0 -> TickPlayer_startTimer(s, f.p, s.pl[f.p].currentTime, 1)
      [] f.pc = 1 -> CallSync(s, StatusFrame(f.p, Playing), 2)
      [] f.pc = 2 -> Return(s)

\* A pauseImpl that leaves the frame requested
TickPlayer_pauseImpl_on(s, f) == Return(s)

TickPlayer_pauseImpl(s, f) == Return(TickPlayer_stopTimer(s, f.p))

\* A stopImpl that leaves currentTime where the last frame put it
TickPlayer_stopImpl_keep(s, f) == Return(TickPlayer_stopTimer(s, f.p))

TickPlayer_stopImpl(s, f) ==
    Return(set_currentTime(TickPlayer_stopTimer(s, f.p), f.p, s.pl[f.p].duration))

TickPlayer_seekImpl(s, f) ==
    CASE f.pc = 0 -> TickPlayer_resetTimer(s, f.p, f.ms, 1)
      [] f.pc = 1 -> Return(s)

-----------------------------------------------------------------------------
(* VideoPlayer.  The videojs player is outside the program: what it        *)
(* reports (paused(), currentTime(), duration()) and the events it fires   *)
(* are inputs of the event actions, and its commands change nothing the    *)
(* program itself holds.  Whether its commands fail in the running task   *)
(* (throw, or return a promise that is rejected) is the input s.fails;     *)
(* every hook runs its command inside try / catch.                         *)

\* `await promise` of a promise the videojs player settles later
AwaitVideo(s, next) ==
    LET f == Top(s)
        g == [f EXCEPT !.pc = next, !.first = FALSE, !.nd = 0]
    IN [Pop(s) EXCEPT !.susp = Park(@, g)]

\* the listener of "waiting", "canplay", "pause", "suspend", "playing",
\* "play", "seeking", "seeked", "stalled" and "canplaythrough"; f.x is the
\* event's type, f.y = 1 if video.paused()
VideoPlayer_onEvent(s, f) ==
    CASE f.pc = 0 ->
           IF s.pl[f.p].status = Ended THEN Return(s)
           ELSE IF f.y = 0 /\ f.x # "seeking"
                THEN CallSync(s, StatusFrame(f.p, Playing), 1)
           ELSE IF s.pl[f.p].status # Pause /\ s.pl[f.p].status # Ready
                THEN CallSync(s, StatusFrame(f.p, IF f.x = "pause" THEN Ready
                                                  ELSE Buffering), 1)
           ELSE Return(s)
      [] f.pc = 1 -> Return(s)

\* the listener of "error"; f.y = 1 if video.paused()
VideoPlayer_onError(s, f) ==
    CASE f.pc = 0 ->
           IF s.pl[f.p].status = Playing /\ f.y = 1
           THEN CallSync(s, StatusFrame(f.p, Buffering), 1)
           ELSE Return(s)
      [] f.pc = 1 -> Return(s)

\* the listener of "ended"
VideoPlayer_onEnded(s, f) ==
    CASE f.pc = 0 -> CallSync(s, StatusFrame(f.p, Ended), 1)
      [] f.pc = 1 -> Return(s)

\* history: the command of hook fn of p has thrown and the hook's catch
\* block runs, which ignores the exception
Caught(s, p, fn) == Emit(s, p, "caught", fn, 0)

\* history: the command of hook fn of p has thrown and no catch block is
\* around it, so that the operation that awaits the hook is rejected
Uncaught(s, p, fn) == Emit(s, p, "uncaught", fn, 0)

\* try { video.pause() } catch { }
VideoPlayer_readyImpl(s, f) ==
    IF s.fails THEN Return(Caught(s, f.p, f.fn)) ELSE Return(s)

\* try { await video.play() } catch { }: play() throws, or returns a promise
\* that the videojs player resolves or rejects later
VideoPlayer_playImpl(s, f) ==
    CASE f.pc = 0 -> IF s.fails THEN Return(Caught(s, f.p, f.fn)) ELSE AwaitVideo(s, 1)
      [] f.pc = 1 -> IF s.fails THEN Return(Caught(s, f.p, f.fn)) ELSE Return(s)

\* A pauseImpl without try / catch
VideoPlayer_pauseImpl_bare(s, f) ==
    IF s.fails THEN Return(Uncaught(s, f.p, f.fn)) ELSE Return(s)

\* try { video.pause() } catch { }
VideoPlayer_pauseImpl(s, f) ==
    IF s.fails THEN Return(Caught(s, f.p, f.fn)) ELSE Return(s)

\* try { video.currentTime(video.duration()) } catch { }
VideoPlayer_stopImpl(s, f) ==
    IF s.fails THEN Return(Caught(s, f.p, f.fn)) ELSE Return(s)

\* try { video.currentTime(ms / 1000) } catch { }
VideoPlayer_seekImpl(s, f) ==
    IF s.fails THEN Return(Caught(s, f.p, f.fn)) ELSE Return(s)

\* try { video.playbackRate(value) } catch { }, then the setter goes on
VideoPlayer_setPlaybackRateImpl(s, p, next) ==
    IF s.fails THEN Goto(Caught(s, p, "VideoPlayer_setPlaybackRateImpl"), next)
    ELSE Goto(s, next)

-----------------------------------------------------------------------------
(* AtomPlayer: the playbackRate setter *)

\* `p.playbackRate = value`, value in ten-thousandths
RateFrame(p, value) == Frame("set_playbackRate", p, value)

\* A playbackRate setter whose "ratechange" no parent listens to
set_playbackRate_unheard(s, f) ==
    LET p == f.p
        rate == normalize(f.ms)
    IN CASE f.pc = 0 ->
              IF isEqual(s.pl[p].playbackRate, rate) THEN Return(s)
              ELSE LET s1 == Emit(s, p, "hook", "setPlaybackRateImpl", 0)
                   IN IF Kind(s, p) = "tick"
                      THEN TickPlayer_resetTimer(s1, p, s1.pl[p].currentTime, 2)
                      ELSE IF Kind(s, p) = "video"
                      THEN VideoPlayer_setPlaybackRateImpl(s1, p, 2)
                      ELSE CallSync(s1, RateFrame(First(s, p), rate * 10), 1)
         [] f.pc = 1 -> CallSync(s, RateFrame(Second(s, p), rate * 10), 2)
         [] f.pc = 2 ->
              Return(Emit([s EXCEPT !.pl[p].playbackRate = rate],
                          p, "ratechange", "", rate))
         [] f.pc = 3 -> Return(s)

\* The playbackRate setter with setPlaybackRateImpl of the three classes
\* (TickPlayer: _resetTimer(currentTime, rate); OffsetPlayer, ClusterPlayer:
\* the rate is assigned to both children) and the synchronous delivery of
\* "ratechange" to the parent's listener.
set_playbackRate(s, f) ==
    LET p == f.p
        q == Parent(s, p)
        rate == normalize(f.ms)
    IN CASE f.pc = 0 ->
              IF isEqual(s.pl[p].playbackRate, rate) THEN Return(s)
              ELSE LET s1 == Emit(s, p, "hook", "setPlaybackRateImpl", 0)
                   IN IF Kind(s, p) = "tick"
                      THEN TickPlayer_resetTimer(s1, p, s1.pl[p].currentTime, 2)
                      ELSE IF Kind(s, p) = "video"
                      THEN VideoPlayer_setPlaybackRateImpl(s1, p, 2)
                      ELSE CallSync(s1, RateFrame(First(s, p), rate * 10), 1)
         [] f.pc = 1 -> CallSync(s, RateFrame(Second(s, p), rate * 10), 2)
         [] f.pc = 2 ->
              LET s1 == Emit([s EXCEPT !.pl[p].playbackRate = rate],
                             p, "ratechange", "", rate)
              IN (CASE q = 0 -> Return(s1)
                   [] q # 0 /\ ~s1.pl[q].listening -> Return(s1)
                   [] q # 0 /\ s1.pl[q].listening /\ Kind(s, q) = "cluster" ->
                        CallSync(s1, RateFrame(q, rate * 10), 3)
                   [] q # 0 /\ s1.pl[q].listening /\ Kind(s, q) = "offset" ->
                        IF s1.pl[q].currentPlayer = p
                        THEN CallSync(s1, RateFrame(q, rate * 10), 3)
                        ELSE Return(s1))
         [] f.pc = 3 -> Return(s)

-----------------------------------------------------------------------------
(* OffsetPlayer: First = player, Second = timer *)

\* A currentPlayer setter that leaves `visible` alone
set_currentPlayer_only(s, o, q) == [s EXCEPT !.pl[o].currentPlayer = q]

\* the currentPlayer setter
set_currentPlayer(s, o, q) ==
    IF s.pl[o].currentPlayer = q THEN s
    ELSE set_visible([s EXCEPT !.pl[o].currentPlayer = q], o, q # Second(s, o))

\* listener of the player's "status"
OffsetPlayer_onPlayerStatus(s, f) ==
    CASE f.pc = 0 ->
           IF s.pl[f.p].currentPlayer = First(s, f.p)
           THEN CallSync(s, StatusFrame(f.p, s.pl[First(s, f.p)].status), 1)
           ELSE Return(s)
      [] f.pc = 1 -> Return(s)

\* A listener of the timer's "status" that seeks and plays the wrapped
\* player whatever the status of the OffsetPlayer is
OffsetPlayer_onTimerStatus_always(s, f) ==
    LET o == f.p
        timer == Second(s, o)
        player == First(s, o)
    IN CASE f.pc = 0 ->
              (CASE s.pl[o].currentPlayer # timer -> Return(s)
                [] s.pl[o].currentPlayer = timer /\ s.pl[timer].status # Ended ->
                     CallSync(s, StatusFrame(o, s.pl[timer].status), 5)
                [] s.pl[o].currentPlayer = timer /\ s.pl[timer].status = Ended ->
                     CallAsync(set_currentPlayer(s, o, player),
                               Method(s, player, "seek", 0), "await", 1))
         [] f.pc = 1 -> Await(s, 2)
         [] f.pc = 2 -> CallAsync(s, Method(s, player, "play", 0), "await", 3)
         [] f.pc = 3 -> Await(s, 4)
         [] f.pc = 4 -> Return(s)
         [] f.pc = 5 -> Return(s)

\* listener of the timer's "status" (an async function)
OffsetPlayer_onTimerStatus(s, f) ==
    LET o == f.p
        timer == Second(s, o)
        player == First(s, o)
    IN CASE f.pc = 0 ->
              (CASE s.pl[o].currentPlayer # timer -> Return(s)
                [] s.pl[o].currentPlayer = timer /\ s.pl[timer].status # Ended ->
                     CallSync(s, StatusFrame(o, s.pl[timer].status), 5)
                [] s.pl[o].currentPlayer = timer /\ s.pl[timer].status = Ended ->
                     LET s1 == set_currentPlayer(s, o, player)
                     IN IF s1.pl[o].status = Playing
                        THEN CallAsync(s1, Method(s1, player, "seek", 0), "await", 1)
                        ELSE Return(s1))
         [] f.pc = 1 -> Await(s, 2)
         [] f.pc = 2 -> CallAsync(s, Method(s, player, "play", 0), "await", 3)
         [] f.pc = 3 -> Await(s, 4)
         [] f.pc = 4 -> Return(s)
         [] f.pc = 5 -> Return(s)

\* A setOffset that does not re-evaluate the current player
OffsetPlayer_setOffset_plain(s, f) ==
    CASE f.pc = 0 ->
           IF s.pl[f.p].offset # f.ms
           THEN LET s1 == set_duration(s, Second(s, f.p), f.ms)
                IN Goto([s1 EXCEPT !.pl[f.p].offset = f.ms], 2)
           ELSE Return(s)
      [] f.pc = 1 -> Await(s, 2)
      [] f.pc = 2 -> Return(s)

OffsetPlayer_setOffset(s, f) ==
    CASE f.pc = 0 ->
           IF s.pl[f.p].offset # f.ms
           THEN LET s1 == set_duration(s, Second(s, f.p), f.ms)
                    s2 == [s1 EXCEPT !.pl[f.p].offset = f.ms]
                IN CallAsync(s2, Frame("OffsetPlayer_seekImpl", f.p,
                                       s2.pl[f.p].currentTime), "await", 1)
           ELSE Return(s)
      [] f.pc = 1 -> Await(s, 2)
      [] f.pc = 2 -> Return(s)

OffsetPlayer_readyImpl(s, f) ==
    CASE f.pc = 0 -> CallAsync(s, Method(s, First(s, f.p), "ready", 0), "join", 1)
      [] f.pc = 1 -> CallAsync(s, Method(s, Second(s, f.p), "ready", 0), "join", 2)
      [] f.pc = 2 -> AwaitAll(s, 3)
      [] f.pc = 3 -> Return(s)

OffsetPlayer_playImpl(s, f) ==
    CASE f.pc = 0 ->
           CallAsync(s, Method(s, s.pl[f.p].currentPlayer, "play", 0), "await", 1)
      [] f.pc = 1 -> Await(s, 2)
      [] f.pc = 2 -> Return(s)

\* A pauseImpl that pauses both children, the way readyImpl readies both
OffsetPlayer_pauseImpl_both(s, f) ==
    CASE f.pc = 0 -> CallAsync(s, Method(s, First(s, f.p), "pause", 0), "join", 1)
      [] f.pc = 1 -> CallAsync(s, Method(s, Second(s, f.p), "pause", 0), "join", 2)
      [] f.pc = 2 -> AwaitAll(s, 3)
      [] f.pc = 3 -> Return(s)
OffsetPlayer_pauseImpl(s, f) ==
    CASE f.pc = 0 ->
           CallAsync(s, Method(s, s.pl[f.p].currentPlayer, "pause", 0), "await", 1)
      [] f.pc = 1 -> Await(s, 2)
      [] f.pc = 2 -> Return(s)

\* A stopImpl that stops the current player only
OffsetPlayer_stopImpl_current(s, f) ==
    CASE f.pc = 0 ->
           CallAsync(s, Method(s, s.pl[f.p].currentPlayer, "stop", 0), "await", 1)
      [] f.pc = 1 -> Await(s, 2)
      [] f.pc = 2 -> Goto(s, 4)
      [] f.pc = 4 -> Return(set_currentPlayer(s, f.p, First(s, f.p)))

OffsetPlayer_stopImpl(s, f) ==
    CASE f.pc = 0 -> CallAsync(s, Method(s, Second(s, f.p), "stop", 0), "await", 1)
      [] f.pc = 1 -> Await(s, 2)
      [] f.pc = 2 -> CallAsync(s, Method(s, First(s, f.p), "stop", 0), "await", 3)
      [] f.pc = 3 -> Await(s, 4)
      [] f.pc = 4 -> Return(set_currentPlayer(s, f.p, First(s, f.p)))

\* f.y = oldPlayer, f.x = wasPlaying
OffsetPlayer_seekImpl(s, f) ==
    LET o == f.p
        cur == s.pl[o].currentPlayer
    IN CASE f.pc = 0 ->
              LET s1 == [s EXCEPT !.stack[Len(s.stack)].y = cur,
                                  !.stack[Len(s.stack)].x =
                                      IF isPlaying(s, cur) THEN "true" ELSE "false"]
              IN IF f.ms >= s.pl[o].offset
                 THEN CallAsync(s1, Frame("OffsetPlayer_seekPlayer", o, f.ms), "await", 1)
                 ELSE CallAsync(s1, Frame("OffsetPlayer_seekTimer", o, f.ms), "await", 1)
         [] f.pc = 1 -> Await(s, 2)
         [] f.pc = 2 ->
              IF cur # f.y /\ f.x = "true"
              THEN CallAsync(s, Method(s, cur, "play", 0), "await", 3)
              ELSE Return(s)
         [] f.pc = 3 -> Await(s, 4)
         [] f.pc = 4 -> Return(s)

OffsetPlayer_seekTimer(s, f) ==
    LET o == f.p
        timer == Second(s, o)
        player == First(s, o)
    IN CASE f.pc = 0 ->
              IF s.pl[o].currentPlayer # timer
              THEN CallAsync(set_currentPlayer(s, o, timer),
                             Method(s, player, "ready", 0), "await", 1)
              ELSE Goto(s, 4)
         [] f.pc = 1 -> Await(s, 2)
         [] f.pc = 2 -> CallAsync(s, Method(s, player, "seek", 0), "await", 3)
         [] f.pc = 3 -> Await(s, 4)
         [] f.pc = 4 -> CallAsync(s, Method(s, timer, "seek", f.ms), "await", 5)
         [] f.pc = 5 -> Await(s, 6)
         [] f.pc = 6 -> Return(s)

OffsetPlayer_seekPlayer(s, f) ==
    LET o == f.p
        timer == Second(s, o)
        player == First(s, o)
    IN CASE f.pc = 0 ->
              IF s.pl[o].currentPlayer # player
              THEN CallAsync(set_currentPlayer(s, o, player),
                             Method(s, timer, "stop", 0), "await", 1)
              ELSE Goto(s, 2)
         [] f.pc = 1 -> Await(s, 2)
         [] f.pc = 2 ->
              CallAsync(s, Method(s, player, "seek", f.ms - s.pl[o].offset), "await", 3)
         [] f.pc = 3 -> Await(s, 4)
         [] f.pc = 4 -> Return(s)

-----------------------------------------------------------------------------
(* ClusterPlayer: First = rowPlayer, Second = colPlayer *)

Other(s, c, e) == IF e = First(s, c) THEN Second(s, c) ELSE First(s, c)

\* An updateStatus that assigns the emitter's status
updateStatus_emitter(e, r) == e

\* The status updateStatus assigns, or "" when it assigns none
updateStatus(e, r) ==
    CASE e = Ready -> IF r = Ready \/ r = Ended THEN Ready ELSE ""
      [] e = Pause -> IF r # Playing THEN Pause ELSE ""
      [] e = Buffering -> IF r # Pause THEN Buffering ELSE ""
      [] e = Playing -> IF r = Playing \/ r = Ended THEN Playing ELSE ""
      [] e = Ended -> r

startFrameDropCheck(s, c) ==
    IF s.pl[c].stopFrameDropCheck THEN s
    ELSE [s EXCEPT !.pl[c].stopFrameDropCheck = TRUE, !.pl[c].frameDropCount = 0]

\* A stopFrameDropCheck that leaves the interval scheduled
stopFrameDropCheck_keep(s, c) == s

stopFrameDropCheck(s, c) == [s EXCEPT !.pl[c].stopFrameDropCheck = FALSE]

\* history: the listener of "status" has run for the change of a child to
\* status `to`, the other child then having status `other`
Reacted(s, c, to, other) ==
    Emit(s, c, "reaction", to \o "/" \o other \o "/" \o s.pl[c].status, 0)

\* history: updateStatus(emitter, receptor) is called, the two having the
\* statuses e and r
Judged(s, c, e, r) == Emit(s, c, "updateStatus", e \o "/" \o r, 0)

\* listener of "status" of either child; f.ms is the emitter, f.x the
\* statuses of the two children when the listener starts
ClusterPlayer_onStatus(s, f) ==
    LET c == f.p
        e == f.ms
        r == Other(s, c, e)
        v == updateStatus(s.pl[e].status, s.pl[r].status)
    IN CASE f.pc = 0 ->
              IF s.pl[c].ignoreSetStatus
              THEN Return(Reacted(s, c, s.pl[e].status, s.pl[r].status))
              ELSE CallAsync([s EXCEPT !.stack[Len(s.stack)].x = s.pl[e].status,
                                       !.stack[Len(s.stack)].kx = s.pl[r].status],
                             Frame("ClusterPlayer_syncSubPlayer", c, e), "none", 1)
         [] f.pc = 1 ->
              LET s1 == Judged(s, c, s.pl[e].status, s.pl[r].status)
              IN IF v # "" THEN CallSync(s1, StatusFrame(c, v), 2) ELSE Goto(s1, 2)
         [] f.pc = 2 ->
              LET s1 == Reacted(s, c, f.x, f.kx)
              IN IF s.pl[First(s, c)].status = Playing /\ s.pl[Second(s, c)].status = Playing
                 THEN Return(startFrameDropCheck(s1, c))
                 ELSE Return(stopFrameDropCheck(s1, c))

\* history: syncSubPlayer of c calls q.ready() / q.play() / q.pause()
Issued(s, c, op, q) == Emit(s, c, "call", op, q)

\* A syncSubPlayer that answers the emitter instead of following it: play()
\* on an emitter that paused, pause() on an emitter that plays
ClusterPlayer_syncSubPlayer_echo(s, f) ==
    LET e == f.ms
        es == s.pl[e].status
    IN CASE f.pc = 0 ->
              (CASE es = Pause ->
                     CallAsync(Issued(s, f.p, "play", e), Method(s, e, "play", 0), "await", 1)
                [] es = Playing ->
                     CallAsync(Issued(s, f.p, "pause", e), Method(s, e, "pause", 0), "await", 1)
                [] OTHER -> Return(s))
         [] f.pc = 1 -> Await(s, 2)
         [] f.pc = 2 -> Return(s)

\* f.ms is the emitter
ClusterPlayer_syncSubPlayer(s, f) ==
    LET e == f.ms
        r == Other(s, f.p, e)
        es == s.pl[e].status
        rs == s.pl[r].status
    IN CASE f.pc = 0 ->
              (CASE es = Pause /\ isPlaying(s, r) ->
                     CallAsync(Issued(s, f.p, "pause", r), Method(s, r, "pause", 0), "await", 1)
                [] es = Buffering /\ rs = Playing ->
                     CallAsync(Issued(s, f.p, "ready", r), Method(s, r, "ready", 0), "await", 1)
                [] es = Playing /\ rs = Buffering ->
                     CallAsync(Issued(s, f.p, "ready", e), Method(s, e, "ready", 0), "await", 1)
                [] es = Playing /\ rs = Ready
                      /\ (s.pl[r].duration <= 0 \/ s.pl[e].currentTime < s.pl[r].duration) ->
                     CallAsync(Issued(s, f.p, "play", r), Method(s, r, "play", 0), "await", 1)
                [] OTHER -> Return(s))
         [] f.pc = 1 -> Await(s, 2)
         [] f.pc = 2 -> Return(s)

\* ready() / play() / pause() / stop() / seek(ms): f.x names the operation
ClusterPlayer_op(s, f) ==
    CASE f.pc = 0 -> CallAsync(s, Impl(s, f.p, f.x, f.ms), "await", 1)
      [] f.pc = 1 -> Await(s, 2)
      [] f.pc = 2 -> Return(s)

\* readyImpl() / playImpl() / pauseImpl() / stopImpl()
ClusterPlayer_impl(s, f) ==
    CASE f.pc = 0 ->
           CallAsync(s, [Frame("ClusterPlayer_invokeSubPlayers", f.p, 0) EXCEPT !.x = f.x],
                     "await", 1)
      [] f.pc = 1 -> Await(s, 2)
      [] f.pc = 2 -> Return(s)

\* f.y = wasPlaying
ClusterPlayer_seekImpl(s, f) ==
    CASE f.pc = 0 ->
           CallAsync([s EXCEPT !.stack[Len(s.stack)].y = IF isPlaying(s, f.p) THEN 1 ELSE 0],
                     [Frame("ClusterPlayer_invokeSubPlayers", f.p, f.ms) EXCEPT !.x = "seek"],
                     "await", 1)
      [] f.pc = 1 -> Await(s, 2)
      [] f.pc = 2 ->
           IF f.y = 1 THEN CallAsync(s, Impl(s, f.p, "play", 0), "await", 3)
           ELSE Return(s)
      [] f.pc = 3 -> Await(s, 4)
      [] f.pc = 4 -> Return(s)

\* An invokeSubPlayers that reaches the rowPlayer only
ClusterPlayer_invokeSubPlayers_row(s, f) ==
    CASE f.pc = 0 -> CallAsync(s, Method(s, First(s, f.p), f.x, f.ms), "join", 1)
      [] f.pc = 1 -> CallAsync(s, Method(s, First(s, f.p), f.x, f.ms), "join", 2)
      [] f.pc = 2 -> AwaitAll(s, 3)
      [] f.pc = 3 -> Return(s)

ClusterPlayer_invokeSubPlayers(s, f) ==
    CASE f.pc = 0 -> CallAsync(s, Method(s, First(s, f.p), f.x, f.ms), "join", 1)
      [] f.pc = 1 -> CallAsync(s, Method(s, Second(s, f.p), f.x, f.ms), "join", 2)
      [] f.pc = 2 -> AwaitAll(s, 3)
      [] f.pc = 3 -> Return(s)

Abs(n) == IF n < 0 THEN -n ELSE n

\* the setInterval callback of startFrameDropCheck
\* A frame drop check that seeks the child that is ahead back to the one
\* that is behind
ClusterPlayer_frameDropCheck_back(s, f) ==
    LET c == f.p
        row == First(s, c)
        col == Second(s, c)
        diff == s.pl[row].currentTime - s.pl[col].currentTime
        n == IF Abs(diff) > DriftThreshold THEN s.pl[c].frameDropCount + 1 ELSE 0
    IN CASE f.pc = 0 ->
              (CASE s.pl[c].status # Playing -> Return([s EXCEPT !.pl[c].frameDropCount = 0])
                [] s.pl[c].status = Playing /\ n < 2 ->
                     Return([s EXCEPT !.pl[c].frameDropCount = n])
                [] s.pl[c].status = Playing /\ n >= 2 ->
                     LET s1 == [s EXCEPT !.pl[c].frameDropCount = n]
                     IN IF diff < 0
                        THEN CallAsync(s1, Method(s, col, "seek", s.pl[row].currentTime), "await", 1)
                        ELSE CallAsync(s1, Method(s, row, "seek", s.pl[col].currentTime), "await", 1))
         [] f.pc = 1 -> Await(s, 2)
         [] f.pc = 2 -> Return([s EXCEPT !.pl[c].frameDropCount = 0])
ClusterPlayer_frameDropCheck(s, f) ==
    LET c == f.p
        row == First(s, c)
        col == Second(s, c)
        diff == s.pl[row].currentTime - s.pl[col].currentTime
        n == IF Abs(diff) > DriftThreshold THEN s.pl[c].frameDropCount + 1 ELSE 0
    IN CASE f.pc = 0 ->
              (CASE s.pl[c].status # Playing -> Return([s EXCEPT !.pl[c].frameDropCount = 0])
                [] s.pl[c].status = Playing /\ n < 2 ->
                     Return([s EXCEPT !.pl[c].frameDropCount = n])
                [] s.pl[c].status = Playing /\ n >= 2 ->
                     LET s1 == [s EXCEPT !.pl[c].frameDropCount = n]
                     IN IF diff < 0
                        THEN CallAsync(s1, Method(s, row, "seek", s.pl[col].currentTime), "await", 1)
                        ELSE CallAsync(s1, Method(s, col, "seek", s.pl[row].currentTime), "await", 1))
         [] f.pc = 1 -> Await(s, 2)
         [] f.pc = 2 -> Return([s EXCEPT !.pl[c].frameDropCount = 0])

-----------------------------------------------------------------------------
(* The interpreter: one step of the function on top of the call stack, and *)
(* the run of a task to completion.                                        *)

Hooks == {k \o op \o "Impl" : k \in {"TickPlayer_", "OffsetPlayer_", "VideoPlayer_"},
                                op \in {"ready", "play", "pause", "stop", "seek"}}
             \cup {"ClusterPlayer_impl", "ClusterPlayer_seekImpl"}

\* history: the hook f starts to run; ClusterPlayer overrides the public
\* operations, so its hooks are not invoked by those of AtomPlayer
Invoke(s, f) ==
    IF f.fn \in Hooks /\ f.pc = 0
    THEN [Emit(s, f.p, "hook", f.fn, 0) EXCEPT
             !.pl[f.p].earlyHook =
                 @ \/ (Kind(s, f.p) # "cluster" /\ s.pl[f.p].initStatus # "Ready")]
    ELSE s

Dispatch(s, f) ==
    CASE f.fn = "set_status" -> set_status(s, f)
         [] f.fn = "set_playbackRate" -> set_playbackRate(s, f)
         [] f.fn = "init" -> AtomPlayer_init(s, f)
         [] f.fn = "ready" -> AtomPlayer_ready(s, f)
         [] f.fn = "play" -> AtomPlayer_play(s, f)
         [] f.fn = "pause" -> AtomPlayer_pause(s, f)
         [] f.fn = "stop" -> AtomPlayer_stop(s, f)
         [] f.fn = "seek" -> AtomPlayer_seek(s, f)
         [] f.fn = "TickPlayer_playRaf" -> TickPlayer_playRaf(s, f)
         [] f.fn = "TickPlayer_readyImpl" -> TickPlayer_readyImpl(s, f)
         [] f.fn = "TickPlayer_playImpl" -> TickPlayer_playImpl(s, f)
         [] f.fn = "TickPlayer_pauseImpl" -> TickPlayer_pauseImpl(s, f)
         [] f.fn = "TickPlayer_stopImpl" -> TickPlayer_stopImpl(s, f)
         [] f.fn = "TickPlayer_seekImpl" -> TickPlayer_seekImpl(s, f)
         [] f.fn = "VideoPlayer_onEvent" -> VideoPlayer_onEvent(s, f)
         [] f.fn = "VideoPlayer_onError" -> VideoPlayer_onError(s, f)
         [] f.fn = "VideoPlayer_onEnded" -> VideoPlayer_onEnded(s, f)
         [] f.fn = "VideoPlayer_readyImpl" -> VideoPlayer_readyImpl(s, f)
         [] f.fn = "VideoPlayer_playImpl" -> VideoPlayer_playImpl(s, f)
         [] f.fn = "VideoPlayer_pauseImpl" -> VideoPlayer_pauseImpl(s, f)
         [] f.fn = "VideoPlayer_stopImpl" -> VideoPlayer_stopImpl(s, f)
         [] f.fn = "VideoPlayer_seekImpl" -> VideoPlayer_seekImpl(s, f)
         [] f.fn = "OffsetPlayer_onPlayerStatus" -> OffsetPlayer_onPlayerStatus(s, f)
         [] f.fn = "OffsetPlayer_onTimerStatus" -> OffsetPlayer_onTimerStatus(s, f)
         [] f.fn = "OffsetPlayer_setOffset" -> OffsetPlayer_setOffset(s, f)
         [] f.fn = "OffsetPlayer_readyImpl" -> OffsetPlayer_readyImpl(s, f)
         [] f.fn = "OffsetPlayer_playImpl" -> OffsetPlayer_playImpl(s, f)
         [] f.fn = "OffsetPlayer_pauseImpl" -> OffsetPlayer_pauseImpl(s, f)
         [] f.fn = "OffsetPlayer_stopImpl" -> OffsetPlayer_stopImpl(s, f)
         [] f.fn = "OffsetPlayer_seekImpl" -> OffsetPlayer_seekImpl(s, f)
         [] f.fn = "OffsetPlayer_seekTimer" -> OffsetPlayer_seekTimer(s, f)
         [] f.fn = "OffsetPlayer_seekPlayer" -> OffsetPlayer_seekPlayer(s, f)
         [] f.fn = "ClusterPlayer_onStatus" -> ClusterPlayer_onStatus(s, f)
         [] f.fn = "ClusterPlayer_syncSubPlayer" -> ClusterPlayer_syncSubPlayer(s, f)
         [] f.fn = "ClusterPlayer_op" -> ClusterPlayer_op(s, f)
         [] f.fn = "ClusterPlayer_impl" -> ClusterPlayer_impl(s, f)
         [] f.fn = "ClusterPlayer_seekImpl" -> ClusterPlayer_seekImpl(s, f)
         [] f.fn = "ClusterPlayer_invokeSubPlayers" -> ClusterPlayer_invokeSubPlayers(s, f)
         [] f.fn = "ClusterPlayer_frameDropCheck" -> ClusterPlayer_frameDropCheck(s, f)

Step(s) == Dispatch(Invoke(s, Top(s)), Top(s))

\* The job at the head of the microtask queue starts to run
Microtask(s) ==
    LET job == Head(s.mq)
        s1 == [s EXCEPT !.mq = Tail(@)]
    IN IF job.t = "resume"
       THEN [s1 EXCEPT !.stack = <<s1.susp[job.f]>>, !.susp = Unpark(@, job.f)]
       ELSE \* Promise.all's resolve-element function
            IF s1.susp[job.f].jn = 1
            THEN [s1 EXCEPT !.susp[job.f].jn = 0,
                            !.mq = Append(@, ResumeJob(job.f))]
            ELSE [s1 EXCEPT !.susp[job.f].jn = @ - 1]

\* Nothing left to run before the caller or the event loop continues
Done(s) ==
    IF s.stack # <<>> THEN FALSE
    ELSE IF s.mq = <<>> THEN TRUE
    ELSE Head(s.mq).t = "caller"

Advance(s) == IF s.stack # <<>> THEN Step(s) ELSE Microtask(s)

\* At most n steps
RECURSIVE RunSteps(_, _)
RunSteps(s, n) ==
    IF n = 0 THEN s
    ELSE IF Done(s) THEN s
    ELSE RunSteps(Advance(s), n - 1)

\* Run to completion: the synchronous code until the call stack is empty,
\* then the microtasks in order, up to the continuation of a caller
RECURSIVE Run(_)
Run(s) == IF Done(s) THEN s ELSE Run(RunSteps(s, 32))

\* A task that starts by calling g from the event loop
RunTask(s, g, ret) ==
    Run([s EXCEPT !.stack = <<[g EXCEPT !.id = FreshId(s), !.ret = ret]>>])

-----------------------------------------------------------------------------
(* Construction *)

NoProbe == [st |-> "none", op |-> "", p |-> 0, ms |-> 0, id |-> 0,
            clean |-> FALSE]

\* new AtomPlayer(): the fields' initial values; init() has already run up to
\* its first await (ignoreSetStatus = true, Initializing)
AtomPlayer_new ==
    [status |-> Ready, currentTime |-> 0, duration |-> 0, visible |-> TRUE,
     playbackRate |-> RateOne,
     initStatus |-> "Initializing", ignoreSetStatus |-> TRUE,
     playRafTicket |-> "NaN", currentPlayer |-> 0, offset |-> 0,
     stopFrameDropCheck |-> FALSE, frameDropCount |-> 0,
     listening |-> FALSE, destroyed |-> FALSE,
     \* history: runs of initImpl, emissions of "ready", and whether a public
     \* operation of AtomPlayer invoked a hook before init() had completed
     initImpls |-> 0, readyEmits |-> 0, earlyHook |-> FALSE]

TickPlayer_new(duration) == [AtomPlayer_new EXCEPT !.duration = duration]

\* new VideoPlayer(video), the videojs player reporting this time and
\* duration
VideoPlayer_new(currentTime, duration) ==
    [AtomPlayer_new EXCEPT !.currentTime = currentTime, !.duration = duration]

\* An OffsetPlayer that takes the duration of the wrapped player as its own
OffsetPlayer_new_short(offset, player, playerId, timerId) ==
    LET currentPlayer == IF offset > 0 THEN timerId ELSE playerId
    IN [AtomPlayer_new EXCEPT
          !.offset = offset,
          !.currentPlayer = currentPlayer,
          !.duration = player.duration,
          !.currentTime = IF currentPlayer = timerId THEN 0
                          ELSE player.currentTime + offset,
          !.visible = currentPlayer # timerId,
          !.listening = TRUE]

\* new OffsetPlayer(offset, player), `player` and `timer` being the ids of
\* the wrapped player and of the TickPlayer the constructor creates
OffsetPlayer_new(offset, player, playerId, timerId) ==
    LET currentPlayer == IF offset > 0 THEN timerId ELSE playerId
    IN [AtomPlayer_new EXCEPT
          !.offset = offset,
          !.currentPlayer = currentPlayer,
          !.duration = offset + player.duration,
          !.currentTime = IF currentPlayer = timerId THEN 0
                          ELSE player.currentTime + offset,
          !.visible = currentPlayer # timerId,
          !.listening = TRUE]

\* new ClusterPlayer(rowPlayer, colPlayer)
ClusterPlayer_new(row, col) ==
    LET longer == IF row.duration >= col.duration THEN row ELSE col
    IN [AtomPlayer_new EXCEPT
          !.currentTime = longer.currentTime,
          !.duration = longer.duration,
          !.listening = TRUE]

\* what a videojs player reports, in ms: no duration (NaN) is taken as 0
VideoTimes == {0, DriftThreshold}

Durations == {k * DriftThreshold : k \in 1..MaxUnits}
Offsets == {k * DriftThreshold : k \in 0..(MaxUnits - 1)}
\* a child of a ClusterPlayer is short, or long enough for the two to drift
\* apart by more than DriftThreshold while both play
ClusterDurations == {DriftThreshold, (MaxUnits + 1) * DriftThreshold}

Construct(t, d1, d2) ==
    CASE t = "tick" -> <<TickPlayer_new(d1)>>
      [] t = "offset" ->
           <<TickPlayer_new(d1),
             OffsetPlayer_new(d2, TickPlayer_new(d1), 1, 3),
             TickPlayer_new(d2)>>
      [] t = "cluster" ->
           <<TickPlayer_new(d1), TickPlayer_new(d2),
             ClusterPlayer_new(TickPlayer_new(d1), TickPlayer_new(d2))>>
      [] t = "video" ->
           <<VideoPlayer_new(0, d1), VideoPlayer_new(0, d2),
             ClusterPlayer_new(VideoPlayer_new(0, d1), VideoPlayer_new(0, d2))>>
      [] t = "sync" ->
           LET o == OffsetPlayer_new(0, TickPlayer_new(d1), 1, 3)
           IN <<TickPlayer_new(d1), o, TickPlayer_new(0), TickPlayer_new(d2),
                ClusterPlayer_new(o, TickPlayer_new(d2))>>

InitTopo(t) ==
    /\ topo = t
    /\ \E d1, d2 \in Durations \cup Offsets \cup ClusterDurations :
         /\ CASE t = "tick" -> d1 \in Durations /\ d2 = 0
              [] t = "offset" -> d1 \in Durations /\ d2 \in Offsets
              [] t = "cluster" -> d1 \in ClusterDurations /\ d2 \in ClusterDurations
              [] t = "sync" -> d1 = DriftThreshold /\ d2 = MaxUnits * DriftThreshold
              [] t = "video" -> d1 \in VideoTimes /\ d2 \in VideoTimes
         /\ pl = Construct(t, d1, d2)
    /\ susp = <<>>
    /\ mq = <<>>
    /\ initQ = [i \in 1..Shape(t).n |-> i]
    /\ initWait = [i \in 1..Shape(t).n |-> <<>>]
    /\ probe = NoProbe

Init == \E t \in Topologies : InitTopo(t)

-----------------------------------------------------------------------------
(* The event loop and the caller *)

Cur == [shape |-> Shape(topo), pl |-> pl, stack |-> <<>>, susp |-> susp, mq |-> mq,
        initWait |-> initWait, log |-> <<>>, fails |-> FALSE]

\* the promises of video.play() not yet settled
PendingPlays(s) == {k \in DOMAIN s.susp : s.susp[k].fn = "VideoPlayer_playImpl"}

Commit(s) ==
    /\ (topo = "video" => Cardinality(PendingPlays(s)) <= MaxPlays)
    /\ pl' = s.pl
    /\ susp' = s.susp
    /\ mq' = s.mq
    /\ initWait' = s.initWait
    /\ topo' = topo

Root == Shape(topo).root

\* every init() has completed
Initialized == initQ = <<>>

\* the init() of every player that is not a ClusterPlayer has completed
LeavesInitialized ==
    \A i \in DOMAIN initQ : Shape(topo).kind[initQ[i]] = "cluster"

\* The caller runs: from the event loop, or as the continuation of its
\* `await` of an earlier call
CanCall == IF mq = <<>> THEN TRUE ELSE Head(mq).t = "caller"

CallerState == IF mq = <<>> THEN Cur ELSE [Cur EXCEPT !.mq = Tail(@)]

\* The state in which the caller's `await` of the call g continues, or in
\* which the call is still pending with nothing left to run
AfterCall(g) == RunTask(CallerState, g, "caller")

Settled(s, k) == s.mq # <<>> /\ Head(s.mq) = CallerJob(k)

Observe(s, pr) ==
    IF pr.st = "running" /\ Settled(s, pr.id) THEN [pr EXCEPT !.st = "done"] ELSE pr

\* the setTimeout callback of the oldest pending init()
InitTimeout ==
    /\ mq = <<>>
    /\ initQ # <<>>
    /\ LET s == RunTask(Cur, [Frame("init", Head(initQ), 0) EXCEPT !.pc = 1], "none")
       IN /\ Commit(s)
          /\ probe' = Observe(s, probe)
    /\ initQ' = Tail(initQ)

\* The continuation of the caller's `await` makes no further call
Continue ==
    /\ mq # <<>>
    /\ Head(mq).t = "caller"
    /\ LET s == Run(CallerState)
       IN /\ Commit(s)
          /\ probe' = IF probe.st = "running" THEN Observe(s, probe) ELSE NoProbe
    /\ UNCHANGED initQ

\* The caller awaits each call before it makes the next; the application
\* that builds the SyncPlayer tree calls it only after start-up
CallerIdle ==
    /\ probe.st # "running"
    /\ CASE topo \in {"sync", "video"} -> Initialized
         [] topo = "sync3" -> LeavesInitialized
         [] OTHER -> TRUE

\* `await p.ready()` / play() / pause() / stop() / seek(ms) by the caller
CallOp(op, p, ms) ==
    /\ CanCall
    /\ ~pl[p].destroyed
    /\ CallerIdle
    /\ LET g == Method(Cur, p, op, ms)
           k == FreshId(CallerState)
           s == AfterCall(g)
       IN /\ Commit(s)
          /\ probe' = [st |-> IF Settled(s, k) THEN "done" ELSE "running",
                       op |-> op, p |-> p, ms |-> ms, id |-> k,
                       clean |-> Initialized]
    /\ UNCHANGED initQ

SeekArgs == {k * DriftThreshold : k \in 0..(MaxUnits + 1)}

Call_ready == CallOp("ready", Root, 0)
Call_play == CallOp("play", Root, 0)
Call_pause == CallOp("pause", Root, 0)
Call_stop == CallOp("stop", Root, 0)
Call_seek == \E ms \in SeekArgs : CallOp("seek", Root, ms)

\* `await o.setOffset(ms)` on an OffsetPlayer of the tree
Call_setOffset ==
    \E o \in Players(topo) : \E ms \in Offsets :
        /\ Kind(Cur, o) = "offset"
        /\ CanCall
        /\ ~pl[o].destroyed
        /\ Initialized
        /\ CallerIdle
        /\ LET g == Frame("OffsetPlayer_setOffset", o, ms)
               k == FreshId(CallerState)
               s == AfterCall(g)
           IN /\ Commit(s)
              /\ probe' = [st |-> IF Settled(s, k) THEN "done" ELSE "running",
                           op |-> "setOffset", p |-> o, ms |-> ms, id |-> k,
                           clean |-> Initialized]
        /\ UNCHANGED initQ

\* root.destroy() by the caller
Call_destroy ==
    /\ CanCall
    /\ Initialized
    /\ CallerIdle
    /\ ~pl[Root].destroyed
    /\ LET s == Run(destroy(CallerState, Root))
       IN /\ Commit(s)
          /\ probe' = [NoProbe EXCEPT !.st = "done", !.op = "destroy", !.p = Root,
                                      !.clean = TRUE]
    /\ UNCHANGED initQ

\* An animation frame: the playRaf a TickPlayer requested runs; the time
\* elapsed since the last frame is one or two units
AnimationFrame ==
    \E p \in Players(topo) : \E k \in 1..2 :
        /\ mq = <<>>
        /\ Kind(Cur, p) = "tick"
        /\ pl[p].playRafTicket = "live"
        /\ LET ms == pl[p].currentTime + k * DriftThreshold
               s == RunTask(Cur, Frame("TickPlayer_playRaf", p, ms), "none")
           IN /\ Commit(s)
              /\ probe' = IF probe.st = "running" THEN Observe(s, probe) ELSE NoProbe
        /\ UNCHANGED initQ

\* The state after the setInterval callback of c's frame drop check and the
\* microtasks it leaves
AfterCheck(c) == RunTask(Cur, Frame("ClusterPlayer_frameDropCheck", c, 0), "none")

\* history: the child that is behind / ahead, and whether this check is the
\* second in a row to see them, both Playing, more than DriftThreshold apart
Lagging(c) ==
    IF pl[First(Cur, c)].currentTime < pl[Second(Cur, c)].currentTime
    THEN First(Cur, c) ELSE Second(Cur, c)
Leading(c) == Other(Cur, c, Lagging(c))
Corrects(c) ==
    /\ pl[c].status = Playing
    /\ pl[First(Cur, c)].status = Playing
    /\ pl[Second(Cur, c)].status = Playing
    /\ pl[c].frameDropCount >= 1
    /\ pl[Leading(c)].currentTime - pl[Lagging(c)].currentTime > DriftThreshold

\* The setInterval callback of a ClusterPlayer's frame drop check
Interval ==
    \E c \in Players(topo) :
        /\ mq = <<>>
        /\ Kind(Cur, c) = "cluster"
        /\ pl[c].stopFrameDropCheck
        /\ LET s == AfterCheck(c)
           IN /\ Commit(s)
              /\ probe' = IF probe.st = "running" THEN Observe(s, probe)
                          ELSE [NoProbe EXCEPT !.st = "done", !.p = Lagging(c),
                                               !.ms = pl[Leading(c)].currentTime,
                                               !.op = IF Corrects(c) THEN "correct"
                                                      ELSE "check"]
        /\ UNCHANGED initQ

Next ==
    \/ InitTimeout
    \/ Continue
    \/ Call_ready
    \/ Call_play
    \/ Call_pause
    \/ Call_stop
    \/ Call_seek
    \/ Call_setOffset
    \/ Call_destroy
    \/ AnimationFrame
    \/ Interval

Spec == Init /\ [][Next]_vars

\* One OffsetPlayer around a TickPlayer
InitOffset == InitTopo("offset")
NextOffset ==
    \/ InitTimeout
    \/ Continue
    \/ Call_ready
    \/ Call_play
    \/ Call_pause
    \/ Call_stop
    \/ Call_seek
    \/ Call_setOffset
    \/ Call_destroy
    \/ AnimationFrame
SpecOffset == InitOffset /\ [][NextOffset]_vars

\* One ClusterPlayer of two TickPlayers
InitCluster == InitTopo("cluster")
NextCluster ==
    \/ InitTimeout
    \/ Continue
    \/ Call_ready
    \/ Call_play
    \/ Call_pause
    \/ Call_stop
    \/ Call_seek
    \/ Call_destroy
    \/ AnimationFrame
    \/ Interval
SpecCluster == InitCluster /\ [][NextCluster]_vars

\* The tree SyncPlayer builds of an OffsetPlayer and a TickPlayer
InitSync == InitTopo("sync")
NextSync ==
    \/ InitTimeout
    \/ Continue
    \/ Call_ready
    \/ Call_play
    \/ Call_stop
    \/ Call_setOffset
    \/ AnimationFrame
    \/ Interval
SpecSync == InitSync /\ [][NextSync]_vars

\* players.reduce((combined, player) => new ClusterPlayer(combined, player))
\* of three TickPlayers
SyncPlayer(p0, p1, p2) ==
    LET c == ClusterPlayer_new(p0, p1)
    IN <<p0, p1, p2, c, ClusterPlayer_new(c, p2)>>

InitSync3 ==
    /\ topo = "sync3"
    /\ \E d0 \in Durations :
         pl = SyncPlayer(TickPlayer_new(d0), TickPlayer_new(DriftThreshold),
                         TickPlayer_new(MaxUnits * DriftThreshold))
    /\ susp = <<>>
    /\ mq = <<>>
    /\ initQ = [i \in 1..ShapeSync3.n |-> i]
    /\ initWait = [i \in 1..ShapeSync3.n |-> <<>>]
    /\ probe = NoProbe
NextSync3 ==
    \/ InitTimeout
    \/ Continue
    \/ Call_ready
    \/ Call_play
    \/ Call_pause
    \/ Call_stop
    \/ Call_seek
    \/ AnimationFrame
    \/ Interval
SpecSync3 == InitSync3 /\ [][NextSync3]_vars

\* the calls that wait for an init() to complete
RECURSIVE Waiting(_)
Waiting(n) == IF n = 0 THEN 0 ELSE Len(initWait[n]) + Waiting(n - 1)

\* root.ready() / play() / pause() / stop() / seek(ms) by callers that do not
\* await one another, while an init() is still pending
Early_call ==
    \E op \in {"ready", "play", "pause", "stop", "seek"} : \E ms \in SeekArgs :
        /\ op # "seek" => ms = 0
        /\ mq = <<>>
        /\ ~Initialized
        /\ Waiting(Shape(topo).n) < MaxEarly
        /\ LET s == RunTask(Cur, Method(Cur, Root, op, ms), "none")
           IN /\ Commit(s)
              /\ probe' = NoProbe
        /\ UNCHANGED initQ

\* Operations called before the initialization has finished
NextEarly ==
    \/ InitTimeout
    \/ Early_call
    \/ AnimationFrame
SpecEarly == Init /\ [][NextEarly]_vars

\* the values assigned to playbackRate: 1, 1.004, 1.005, 1.0054 and 2
Rates == {10000, 10040, 10050, 10054, 20000}

\* `root.playbackRate = value`, as the controls of the page do
Set_playbackRate ==
    \E value \in Rates :
        /\ mq = <<>>
        /\ ~pl[Root].destroyed
        /\ LET s == RunTask(Cur, RateFrame(Root, value), "none")
           IN /\ Commit(s)
              /\ probe' = IF probe.st = "running" THEN Observe(s, probe)
                          ELSE [NoProbe EXCEPT !.st = "done", !.op = "ratechange",
                                               !.p = Root, !.ms = value]
        /\ UNCHANGED initQ

\* Playing at different rates
NextSetters ==
    \/ InitTimeout
    \/ Continue
    \/ Call_play
    \/ Call_pause
    \/ AnimationFrame
    \/ Interval
    \/ Set_playbackRate
SpecSetters == Init /\ [][NextSetters]_vars

\* the players SyncPlayer was given
Leaves ==
    {p \in Players(topo) :
        /\ Shape(topo).kind[p] # "cluster"
        /\ \/ Shape(topo).parent[p] = 0
           \/ Shape(topo).kind[Shape(topo).parent[p]] = "cluster"}

\* `p.duration = ms` on a leaf, as its backend does when it learns the
\* duration of the media
Set_duration ==
    \E p \in Leaves : \E ms \in Durations :
        /\ mq = <<>>
        /\ pl[p].duration # ms
        /\ LET s == Run(set_duration(Cur, p, ms))
           IN /\ Commit(s)
              /\ probe' = IF probe.st = "running" THEN Observe(s, probe)
                          ELSE [NoProbe EXCEPT !.st = "done", !.op = "durationchange",
                                               !.p = p, !.ms = ms]
        /\ UNCHANGED initQ

\* SyncPlayer of one player (the player itself) and of three
InitFold == InitTopo("tick") \/ InitSync3
NextFold ==
    \/ InitTimeout
    \/ Continue
    \/ Call_play
    \/ Call_destroy
    \/ AnimationFrame
    \/ Interval
    \/ Set_duration
SpecFold == InitFold /\ [][NextFold]_vars

\* `p.playbackRate = value` on a child of a ClusterPlayer
Set_subPlayerRate ==
    \E p \in Players(topo) : \E value \in Rates :
        /\ Parent(Cur, p) # 0
        /\ Kind(Cur, Parent(Cur, p)) = "cluster"
        /\ mq = <<>>
        /\ ~pl[p].destroyed
        /\ LET s == RunTask(Cur, RateFrame(p, value), "none")
           IN /\ Commit(s)
              /\ probe' = IF probe.st = "running" THEN Observe(s, probe)
                          ELSE [NoProbe EXCEPT !.st = "done", !.op = "ratechange",
                                               !.p = p, !.ms = value]
        /\ UNCHANGED initQ

\* One ClusterPlayer of two TickPlayers, the playback rate of each of the
\* three being assigned
NextRates ==
    \/ InitTimeout
    \/ Continue
    \/ Call_play
    \/ Call_pause
    \/ AnimationFrame
    \/ Set_playbackRate
    \/ Set_subPlayerRate
SpecRates == InitCluster /\ [][NextRates]_vars

\* `player.duration = ms` on the player an OffsetPlayer wraps, as its backend
\* does when it learns the duration of the media
Set_playerDuration ==
    \E o \in Players(topo) : \E ms \in Durations :
        /\ Kind(Cur, o) = "offset"
        /\ mq = <<>>
        /\ pl[First(Cur, o)].duration # ms
        /\ LET s == Run(set_duration(Cur, First(Cur, o), ms))
           IN /\ Commit(s)
              /\ probe' = IF probe.st = "running" THEN Observe(s, probe)
                          ELSE [NoProbe EXCEPT !.st = "done", !.op = "durationchange",
                                               !.p = First(Cur, o), !.ms = ms]
        /\ UNCHANGED initQ

\* One OffsetPlayer around a player whose duration changes
NextOffsetDuration ==
    \/ InitTimeout
    \/ Continue
    \/ Call_play
    \/ Call_setOffset
    \/ AnimationFrame
    \/ Set_playerDuration
SpecOffsetDuration == InitOffset /\ [][NextOffsetDuration]_vars

\* the event types the listener of the videojs player tells apart
VideoEvents == {"seeking", "pause", "playing"}

VideoPlayers == {p \in Players(topo) : Shape(topo).kind[p] = "video"}

\* the state after the task in which a listener g of the videojs player runs
AfterVideo(g) == RunTask(Cur, g, "none")

VideoTask(p, s) ==
    /\ mq = <<>>
    /\ ~pl[p].destroyed
    /\ Commit(s)
    /\ probe' = IF probe.st = "running" THEN Observe(s, probe) ELSE NoProbe
    /\ UNCHANGED initQ

\* the videojs player fires one of the events that tell of its playback
VideoEvent ==
    \E p \in VideoPlayers : \E type \in VideoEvents : \E paused \in 0..1 :
        VideoTask(p, AfterVideo([Frame("VideoPlayer_onEvent", p, 0) EXCEPT
                                    !.x = type, !.y = paused]))

VideoError ==
    \E p \in VideoPlayers : \E paused \in 0..1 :
        VideoTask(p, AfterVideo([Frame("VideoPlayer_onError", p, 0) EXCEPT
                                    !.y = paused]))

VideoEnded ==
    \E p \in VideoPlayers :
        VideoTask(p, AfterVideo(Frame("VideoPlayer_onEnded", p, 0)))

\* "timeupdate" of the videojs player: updateCurrentTime()
VideoTimeupdate ==
    \E p \in VideoPlayers : \E ms \in VideoTimes :
        VideoTask(p, Run(set_currentTime(Cur, p, ms)))

\* "durationchange" of the videojs player: updateDuration()
VideoDurationchange ==
    \E p \in VideoPlayers : \E ms \in VideoTimes :
        VideoTask(p, Run(set_duration(Cur, p, ms)))

\* the videojs player settles a promise video.play() returned
VideoSettle ==
    \E k \in PendingPlays(Cur) :
        /\ mq = <<>>
        /\ LET s == Run([Cur EXCEPT !.stack = <<susp[k]>>, !.susp = Unpark(@, k)])
           IN /\ Commit(s)
              /\ probe' = IF probe.st = "running" THEN Observe(s, probe) ELSE NoProbe
        /\ UNCHANGED initQ

\* One ClusterPlayer of two VideoPlayers
InitVideo == InitTopo("video")
NextVideo ==
    \/ InitTimeout
    \/ Continue
    \/ Call_ready
    \/ Call_play
    \/ Call_pause
    \/ VideoEvent
    \/ VideoError
    \/ VideoEnded
    \/ VideoTimeupdate
    \/ VideoDurationchange
    \/ VideoSettle
SpecVideo == InitVideo /\ [][NextVideo]_vars

\* One TickPlayer that is played and stopped, never paused, made ready,
\* sought or destroyed; the caller makes each call from a task of its own
InitTick == InitTopo("tick")
Play_fromTask == mq = <<>> /\ Call_play
Stop_fromTask == mq = <<>> /\ Call_stop
NextTickLive ==
    \/ InitTimeout
    \/ Continue
    \/ Play_fromTask
    \/ Stop_fromTask
    \/ AnimationFrame
    \/ Set_playbackRate
\* the TickPlayer has requested a frame and the event loop is free to run
\* it: AnimationFrame is enabled
FrameDue == mq = <<>> /\ pl[1].playRafTicket = "live"
\* SF_vars(AnimationFrame), its enabling condition written out: a frame
\* that is requested again and again is run in the end, though other tasks
\* may run before it
FramesRun == []<>FrameDue => []<><<AnimationFrame>>_vars
\* The microtask queue is drained before the next task.
SpecTickLive ==
    /\ InitTick /\ [][NextTickLive]_vars
    /\ WF_vars(Continue) /\ FramesRun

-----------------------------------------------------------------------------
(* Properties *)

Clusters == {c \in Players(topo) : Shape(topo).kind[c] = "cluster"}
OffsetPlayers == {o \in Players(topo) : Shape(topo).kind[o] = "offset"}
TickPlayers == {p \in Players(topo) : Shape(topo).kind[p] = "tick"}
rowPlayer(c) == Shape(topo).first[c]
colPlayer(c) == Shape(topo).second[c]

\* C1: whenever both children of a ClusterPlayer have status Playing (between
\* tasks, so no notification is being delivered), the ClusterPlayer has
\* status Playing, before as well as after its own init() has completed.
C1_BothPlayingIsPlaying ==
    \A c \in Clusters :
        pl[rowPlayer(c)].status = Playing /\ pl[colPlayer(c)].status = Playing
            => pl[c].status = Playing

\* The state in which the caller's `await root.seek(ms)` continues
AfterSeek(ms) == AfterCall(Method(Cur, Root, "seek", ms))

\* The caller may call now, every init() has completed and no other call
\* or listener is in flight
Callable ==
    /\ Initialized
    /\ ~pl[Root].destroyed
    /\ DOMAIN susp = {}
    /\ IF mq = <<>> THEN TRUE ELSE Len(mq) = 1 /\ Head(mq).t = "caller"

\* C2: for the root of every tree, once every init() has completed: when
\* seek(ms) with ms >= duration has completed, status is Ended and
\* currentTime = duration.
C2_SeekPastEnd ==
    Callable =>
        \A ms \in SeekArgs :
            ms >= pl[Root].duration =>
                LET s == AfterSeek(ms)
                IN /\ Settled(s, FreshId(CallerState))
                   /\ s.pl[Root].status = Ended
                   /\ s.pl[Root].currentTime = s.pl[Root].duration

player(o) == Shape(topo).first[o]
timer(o) == Shape(topo).second[o]

\* What C3 requires of OffsetPlayer o in state s, seek(ms) having completed
C3_Post(s, o, ms) ==
    /\ ms < s.pl[o].offset =>
          /\ s.pl[o].currentPlayer = timer(o)
          /\ s.pl[timer(o)].currentTime = ms
          /\ s.pl[o].currentTime = ms
          /\ s.pl[o].visible = FALSE
    /\ ms >= s.pl[o].offset /\ ms < s.pl[o].duration =>
          /\ s.pl[o].currentPlayer = player(o)
          /\ s.pl[player(o)].currentTime = ms - s.pl[o].offset
          /\ s.pl[o].currentTime = ms
          /\ s.pl[o].visible = TRUE

\* C3: for an OffsetPlayer with offset > 0, once every init() has completed
\* and from any state: when seek(ms) with 0 <= ms < offset has completed, the
\* timer is the current player, timer.currentTime = ms, currentTime = ms and
\* visible is false; when seek(ms) with offset <= ms < duration has completed,
\* the wrapped player is the current player, its currentTime = ms - offset,
\* currentTime = ms and visible is true.
C3_SeekSwitches ==
    Callable =>
        \A o \in OffsetPlayers : \A ms \in SeekArgs :
            pl[o].offset > 0 =>
                LET s == AfterCall(Method(Cur, o, "seek", ms))
                IN /\ Settled(s, FreshId(CallerState))
                   /\ C3_Post(s, o, ms)

\* no call is in flight and nothing is left to run
AtRest == mq = <<>> /\ DOMAIN susp = {}

\* C4: every player with status Ended and duration > 0 has
\* currentTime = duration; stated of the states in which no call is in flight.
C4_EndedAtDuration ==
    AtRest =>
        \A p \in Players(topo) :
            pl[p].status = Ended /\ pl[p].duration > 0
                => pl[p].currentTime = pl[p].duration

\* C5: while a ready() or play() that was called before the player's init()
\* completed is pending on it, the player's status is Buffering.
C5_BufferingUntilInit ==
    probe.st = "running" /\ probe.op \in {"ready", "play"}
        => (pl[probe.p].initStatus # "Ready" => pl[probe.p].status = Buffering)

\* C6: once destroy() has been called on the root, every player of the tree
\* has been destroyed, no TickPlayer has an animation frame requested and no
\* ClusterPlayer has its frame drop check running.
C6_DestroyReleasesAll ==
    pl[Root].destroyed =>
        \A p \in Players(topo) :
            /\ pl[p].destroyed
            /\ pl[p].playRafTicket # "live"
            /\ ~pl[p].stopFrameDropCheck

\* C7: between tasks (every notification delivered) a ClusterPlayer has the
\* currentTime and the duration of its child with the larger duration, the
\* rowPlayer on ties.
C7_MirrorsLongerPlayer ==
    \A c \in Clusters :
        ~pl[c].destroyed =>
            /\ pl[c].currentTime = pl[longerPlayer(Cur, c)].currentTime
            /\ pl[c].duration = pl[longerPlayer(Cur, c)].duration

Inactive(o) == IF pl[o].currentPlayer = player(o) THEN timer(o) ELSE player(o)

\* status and currentTime of q are the same in s as now
Untouched(s, q) ==
    /\ s.pl[q].status = pl[q].status
    /\ s.pl[q].currentTime = pl[q].currentTime

C9_CurrentTimeOfCurrentPlayer ==
    AtRest =>
        \A o \in OffsetPlayers :
            ~pl[o].destroyed =>
                pl[o].currentTime =
                    IF pl[o].currentPlayer = timer(o)
                    THEN pl[timer(o)].currentTime
                    ELSE pl[player(o)].currentTime + pl[o].offset

\* the second check in a row is about to run with both children and the
\* ClusterPlayer Playing
C10_Pre(c) ==
    /\ mq = <<>>
    /\ pl[c].stopFrameDropCheck
    /\ pl[rowPlayer(c)].status = Playing
    /\ pl[colPlayer(c)].status = Playing
    /\ Corrects(c)

\* C10: when the second drift check in a row finds both children and the
\* ClusterPlayer Playing and the children more than DriftThreshold apart,
\* then after its seek the lagging child's currentTime is the leading
\* child's currentTime at the check, and frameDropCount is 0.
C10_DriftCorrected ==
    \A c \in Clusters :
        C10_Pre(c) =>
            LET s == AfterCheck(c)
            IN /\ s.pl[Lagging(c)].currentTime = pl[Leading(c)].currentTime
               /\ s.pl[c].frameDropCount = 0

Min(a, b) == IF a < b THEN a ELSE b

\* C10, up to the lagging child's duration: after the seek
\* of the second check the lagging child's currentTime is the leading child's
\* currentTime at the check, or its own duration if that is not larger, and
\* frameDropCount is 0.
C10_DriftCorrectedUpToDuration ==
    \A c \in Clusters :
        C10_Pre(c) =>
            LET s == AfterCheck(c)
            IN /\ s.pl[Lagging(c)].currentTime =
                      Min(pl[Leading(c)].currentTime, pl[Lagging(c)].duration)
               /\ s.pl[c].frameDropCount = 0

\* C10 happens: the second check in a row has sought the lagging child, which
\* is still playing, to the leading child's currentTime at the check
C10_Corrected ==
    /\ probe.st = "done"
    /\ probe.op = "correct"
    /\ probe.p \in TickPlayers
    /\ pl[probe.p].status = Playing
    /\ pl[probe.p].currentTime = probe.ms
    /\ \A c \in Clusters : pl[c].status = Playing /\ pl[c].frameDropCount = 0

-----------------------------------------------------------------------------
(* The tasks that can run next, each with the notifications it emits *)

Calls == {<<op, 0>> : op \in {"ready", "play", "pause", "stop"}}
             \cup {<<"seek", ms>> : ms \in SeekArgs}

\* the caller's next call on the root
CallResults ==
    IF CanCall /\ CallerIdle /\ ~pl[Root].destroyed
    THEN {AfterCall(Method(Cur, Root, c[1], c[2])) : c \in Calls}
    ELSE {}

\* the next animation frame of a TickPlayer
FrameResults ==
    IF mq = <<>>
    THEN {RunTask(Cur, Frame("TickPlayer_playRaf", pk[1],
                             pl[pk[1]].currentTime + pk[2] * DriftThreshold), "none") :
             pk \in {p \in TickPlayers : pl[p].playRafTicket = "live"} \X (1..2)}
    ELSE {}

\* the next frame drop check of a ClusterPlayer
CheckResults ==
    IF mq = <<>>
    THEN {AfterCheck(c) : c \in {c \in Clusters : pl[c].stopFrameDropCheck}}
    ELSE {}

TaskResults == CallResults \cup FrameResults \cup CheckResults

\* C11: in every task that can run, whenever the listener of a ClusterPlayer
\* has run for a change of a child to Pause while the other child's status
\* was not Playing, the ClusterPlayer's status is Pause.
C11_PauseReaction ==
    \A s \in TaskResults : \A i \in DOMAIN s.log :
        s.log[i].ev = "reaction" =>
            \A o \in SyncPlayerStatus \ {Playing}, st \in SyncPlayerStatus \ {Pause} :
                s.log[i].v # Pause \o "/" \o o \o "/" \o st

\* The state after the microtasks that follow the continuation of the
\* caller's `await`, when the caller makes no further call
Quiet(s) ==
    IF s.mq # <<>> /\ Head(s.mq).t = "caller" THEN Run([s EXCEPT !.mq = Tail(@)])
    ELSE s

\* the three leaves of the tree are initialized and Ready, each before its end
LeavesReady ==
    /\ topo = "sync3"
    /\ CanCall /\ CallerIdle /\ ~pl[Root].destroyed
    /\ \A p \in TickPlayers :
          pl[p].status = Ready /\ pl[p].currentTime < pl[p].duration

AfterPlay == Quiet(AfterCall(Method(Cur, Root, "play", 0)))

\* C12: for the root SyncPlayer builds of three TickPlayers that are
\* initialized and Ready with currentTime < duration: once play() on the root
\* has completed and the microtasks it left have run, all three leaves have
\* status Playing.
C12_PlayStartsAllLeaves ==
    LeavesReady => \A p \in TickPlayers : AfterPlay.pl[p].status = Playing

\* play() on the root is called while the ClusterPlayers' own init() is
\* still pending, the leaves being Ready, and starts all three
C12_PlayedFromReady ==
    /\ LeavesReady
    /\ ~Initialized
    /\ \A p \in TickPlayers : AfterPlay.pl[p].status = Playing


RECURSIVE Max(_)
Max(S) ==
    LET x == CHOOSE x \in S : TRUE
    IN IF S = {x} THEN x
       ELSE LET m == Max(S \ {x}) IN IF x > m THEN x ELSE m

\* C13: the root SyncPlayer builds of one player (the player itself) or of
\* three has, until it is destroyed, the largest of the leaves' durations as
\* its duration, in every state, whatever durations the leaves are assigned.
C13_DurationIsMaxOfLeaves ==
    ~pl[Root].destroyed => pl[Root].duration = Max({pl[p].duration : p \in Leaves})

\* the second of three leaves has just been assigned a duration larger than
\* that of the other two, and the root has it
C13_LeafGrew ==
    /\ topo = "sync3"
    /\ probe.op = "durationchange" /\ probe.p = 2
    /\ \A p \in Leaves \ {2} : pl[p].duration < probe.ms
    /\ pl[Root].duration = probe.ms


\* the root implements the operations of AtomPlayer itself (TickPlayer,
\* OffsetPlayer), every init() has completed and the caller may call
BaseCallable ==
    /\ topo \in {"tick", "offset"}
    /\ Initialized
    /\ CanCall /\ CallerIdle
    /\ ~pl[Root].destroyed

\* lastStatus of seek() and the status the operation it re-applies leaves
Reapplied(lastStatus) ==
    CASE lastStatus \in {Ready, Ended} -> {Ready}
      [] lastStatus = Pause -> {Pause}
      [] lastStatus \in {Buffering, Playing} -> {Playing, Buffering}

\* C14: for an initialized TickPlayer or OffsetPlayer: when seek(ms) with
\* 0 <= ms < duration and ms # currentTime has completed, status is Ready if
\* it was Ready or Ended before, Pause if it was Pause, Playing or Buffering
\* if it was Buffering or Playing.
C14_SeekKeepsStatus ==
    BaseCallable =>
        \A ms \in SeekArgs :
            ms < pl[Root].duration /\ ms # pl[Root].currentTime =>
                LET s == AfterSeek(ms)
                IN /\ Settled(s, FreshId(CallerState))
                   /\ s.pl[Root].status \in Reapplied(pl[Root].status)

\* an OffsetPlayer that is Playing is about to be sought from its timer to
\* its player or back, and is Playing or Buffering when seek() has completed
C14_SoughtWhilePlaying ==
    /\ BaseCallable
    /\ topo = "offset"
    /\ pl[Root].status = Playing
    /\ \E ms \in SeekArgs :
          /\ ms < pl[Root].duration /\ ms # pl[Root].currentTime
          /\ AfterSeek(ms).pl[Root].currentPlayer # pl[Root].currentPlayer
          /\ AfterSeek(ms).pl[Root].status \in {Playing, Buffering}


\* the places in the history of s of the notifications ev of player p
Notified(s, p, ev) == {i \in DOMAIN s.log : s.log[i].ev = ev /\ s.log[i].p = p}

AfterStop == AfterCall(Method(Cur, Root, "stop", 0))

\* C15: for an initialized TickPlayer or OffsetPlayer whose status is not
\* Ended: from the call of stop() to its completion the player emits exactly
\* one "status" notification, the change to Ended; no later assignment changes
\* the status, which is Ended at completion, and ignoreSetStatus is false then.
C15_StopEmitsEndedOnly ==
    BaseCallable /\ pl[Root].status # Ended =>
        /\ Settled(AfterStop, FreshId(CallerState))
        /\ Cardinality(Notified(AfterStop, Root, "status")) = 1
        /\ \A i \in Notified(AfterStop, Root, "status") : AfterStop.log[i].v = Ended
        /\ AfterStop.pl[Root].status = Ended
        /\ ~AfterStop.pl[Root].ignoreSetStatus


\* stop() is about to be called on a Playing OffsetPlayer: between its one
\* notification and its completion the current child becomes Ready, which
\* the listener assigns to the OffsetPlayer in vain
C15_StoppedWhilePlaying ==
    /\ BaseCallable
    /\ topo = "offset"
    /\ pl[Root].status = Playing
    /\ Cardinality(Notified(AfterStop, Root, "status")) = 1
    /\ \E i \in Notified(AfterStop, pl[Root].currentPlayer, "status") :
          /\ AfterStop.log[i].v = Ready
          /\ \A j \in Notified(AfterStop, Root, "status") : j < i


\* The caller's `await` of an earlier call continues in s with the call g
Resumed(s) == [s EXCEPT !.mq = Tail(@)]
ThenCall(s, g) == RunTask(Resumed(s), g, "caller")

AfterPause == AfterCall(Method(Cur, Root, "pause", 0))
AfterPausePlay == ThenCall(AfterPause, Method(AfterPause, Root, "play", 0))

\* every init() has completed and the caller may call the root
RootCallable ==
    /\ Initialized
    /\ CanCall /\ CallerIdle
    /\ ~pl[Root].destroyed

\* C16: for an initialized player (TickPlayer, OffsetPlayer, ClusterPlayer)
\* whose status is Playing: `await pause(); await play()` both complete, the
\* status then is Playing or Buffering, and currentTime is what it was when
\* pause() completed.
C16_PausePlayRoundTrip ==
    RootCallable /\ pl[Root].status = Playing =>
        /\ Settled(AfterPause, FreshId(CallerState))
        /\ Settled(AfterPausePlay, FreshId(Resumed(AfterPause)))
        /\ AfterPausePlay.pl[Root].status \in {Playing, Buffering}
        /\ AfterPausePlay.pl[Root].currentTime = AfterPause.pl[Root].currentTime


\* C17: for every player, whatever operations are called on the root before
\* the initialization has finished: initImpl() has run at most once and
\* "ready" has been emitted at most once, both exactly once when init() has
\* completed, and no hook of a TickPlayer or OffsetPlayer has been invoked
\* before the init() of that player completed.
C17_InitOnceHooksAfter ==
    \A p \in Players(topo) :
        /\ pl[p].initImpls <= 1
        /\ pl[p].readyEmits <= 1
        /\ pl[p].initStatus = "Ready" => pl[p].initImpls = 1 /\ pl[p].readyEmits = 1
        /\ ~pl[p].earlyHook

\* seek() and pause() were both called on a TickPlayer before its init()
\* completed, and both have taken effect after it
C17_EarlyCallsResumed ==
    /\ topo = "tick"
    /\ Initialized
    /\ pl[Root].initImpls = 1 /\ pl[Root].readyEmits = 1
    /\ pl[Root].status = Pause
    /\ pl[Root].currentTime > 0


\* s differs from the present state in nothing, and nothing was notified and
\* no hook invoked on the way to it
Same(s) ==
    /\ s.pl = pl
    /\ s.susp = susp
    /\ s.mq = mq
    /\ s.initWait = initWait
    /\ s.log = <<>>

\* the values that Math.floor takes to ms
Floors(ms) == {ms * 10 + d : d \in {0, 5, 9}}

\* C18: for every player, when a task may start: assigning status its
\* value, currentTime or duration a value whose floor is the stored one,
\* playbackRate a value that isEqual() to the stored one or that normalize()
\* takes to it, or visible its value, changes no state, notifies nothing and
\* invokes no hook.
C18_SettersIdempotent ==
    mq = <<>> =>
        \A p \in Players(topo) :
            /\ Same(RunTask(Cur, StatusFrame(p, pl[p].status), "none"))
            /\ \A x \in Floors(pl[p].currentTime) :
                   Same(set_currentTime(Cur, p, MsFloor(x)))
            /\ \A x \in Floors(pl[p].duration) :
                   Same(set_duration(Cur, p, MsFloor(x)))
            /\ \A value \in Rates :
                   \/ FloorTimes1000(value) = Thousandths(pl[p].playbackRate)
                   \/ normalize(value) = pl[p].playbackRate
                   => Same(RunTask(Cur, RateFrame(p, value), "none"))
            /\ Same(set_visible(Cur, p, pl[p].visible))

\* a Playing TickPlayer at rate 1.005 is assigned 1.005 and 1.0054, and a
\* time and a duration with a fraction, to no effect
C18_RateKept ==
    /\ mq = <<>>
    /\ topo = "tick"
    /\ pl[Root].status = Playing /\ pl[Root].currentTime > 0
    /\ pl[Root].playbackRate \in Inexact
    /\ \A value \in {pl[Root].playbackRate * 10, pl[Root].playbackRate * 10 + 4} :
          Same(RunTask(Cur, RateFrame(Root, value), "none"))
    /\ Same(set_currentTime(Cur, Root, MsFloor(pl[Root].currentTime * 10 + 5)))
    /\ Same(set_duration(Cur, Root, MsFloor(pl[Root].duration * 10 + 5)))


NegativeSeekArgs == {-k * DriftThreshold : k \in 1..MaxUnits} \cup {-1}

\* the calls parked in s, each with the target max(ms, 0) that seek() makes
\* of its argument when it continues
Parked(s) ==
    [k \in DOMAIN s.susp |-> [s.susp[k] EXCEPT !.ms = IF @ < 0 THEN 0 ELSE @]]

\* C19: for the root of every tree, in every state in which the caller may
\* call, before as well as after the initialization: the state in which
\* seek(ms) with ms < 0 completes or is left pending, and the notifications
\* and hook calls up to it, are those of seek(0).
C19_NegativeSeekIsSeekZero ==
    CanCall /\ CallerIdle /\ ~pl[Root].destroyed =>
        \A ms \in NegativeSeekArgs :
            /\ AfterSeek(ms).pl = AfterSeek(0).pl
            /\ AfterSeek(ms).log = AfterSeek(0).log
            /\ AfterSeek(ms).mq = AfterSeek(0).mq
            /\ AfterSeek(ms).initWait = AfterSeek(0).initWait
            /\ Parked(AfterSeek(ms)) = Parked(AfterSeek(0))

\* a Playing root past 0 is about to be sought to a negative time: it is
\* taken to 0 with the notifications of seek(0), and keeps playing
C19_SoughtBelowZero ==
    /\ CanCall /\ CallerIdle /\ ~pl[Root].destroyed
    /\ Initialized
    /\ pl[Root].status = Playing /\ pl[Root].currentTime > 0
    /\ \A ms \in NegativeSeekArgs :
          /\ AfterSeek(ms).pl[Root].currentTime = 0
          /\ AfterSeek(ms).pl[Root].status = Playing
          /\ AfterSeek(ms).log = AfterSeek(0).log
          /\ AfterSeek(ms).log # <<>>


\* the statuses in which the operation returns before it does anything
NoOpIn(op) ==
    CASE op = "play" -> {Playing, Ended}
      [] op = "pause" -> {Pause, Ended}
      [] op = "stop" -> {Ended}
      [] op = "ready" -> {Ready}

AfterOp(op) == AfterCall(Method(Cur, Root, op, 0))

\* C20: on an initialized TickPlayer or OffsetPlayer: play() when status is
\* Playing or Ended, pause() when it is Pause or Ended, stop() when it is
\* Ended and ready() when it is Ready complete with every field of every
\* player as it was, no hook invoked and nothing notified.
C20_NoOps ==
    BaseCallable =>
        \A op \in {"play", "pause", "stop", "ready"} :
            pl[Root].status \in NoOpIn(op) =>
                /\ Settled(AfterOp(op), FreshId(CallerState))
                /\ AfterOp(op).pl = pl
                /\ AfterOp(op).log = <<>>


\* play() is about to be called on an OffsetPlayer that is Playing, its
\* current child running: it completes without doing anything
C20_PlayWhilePlaying ==
    /\ BaseCallable
    /\ topo = "offset"
    /\ pl[Root].status = Playing
    /\ pl[pl[Root].currentPlayer].playRafTicket = "live"
    /\ Settled(AfterOp("play"), FreshId(CallerState))
    /\ AfterOp("play").pl = pl
    /\ AfterOp("play").log = <<>>

\* C21: between tasks, the frame drop check of a ClusterPlayer is scheduled
\* only while both children have status Playing and the ClusterPlayer has
\* not been destroyed.
C21_CheckOnlyWhileBothPlaying ==
    \A c \in Clusters :
        pl[c].stopFrameDropCheck =>
            /\ pl[rowPlayer(c)].status = Playing
            /\ pl[colPlayer(c)].status = Playing
            /\ ~pl[c].destroyed

\* the check is scheduled and the animation frame that comes next takes a
\* child to its end: the listener cancels the check; so does destroy()
C21_CancelledWhenChildEnds ==
    /\ topo = "cluster"
    /\ pl[Root].stopFrameDropCheck
    /\ \E s \in FrameResults :
          /\ \E p \in TickPlayers : s.pl[p].status = Ended
          /\ ~s.pl[Root].stopFrameDropCheck
    /\ CanCall /\ CallerIdle
    /\ ~Run(destroy(CallerState, Root)).pl[Root].stopFrameDropCheck

-----------------------------------------------------------------------------
(* The hand-over of an OffsetPlayer from its timer to the wrapped player *)

\* the caller's next setOffset(ms)
SetOffsetResults ==
    IF CanCall /\ CallerIdle /\ Initialized
    THEN {AfterCall(Frame("OffsetPlayer_setOffset", om[1], om[2])) :
             om \in {o \in OffsetPlayers : ~pl[o].destroyed} \X Offsets}
    ELSE {}

OffsetTaskResults == TaskResults \cup SetOffsetResults

\* the last place before i in the history of s of a notification ev of
\* player p, 0 if there is none
LastBefore(s, p, ev, i) ==
    LET S == {j \in Notified(s, p, ev) : j < i}
    IN IF S = {} THEN 0 ELSE Max(S)

\* the status o had when entry i of the history of s was made
StatusAt(s, o, i) ==
    LET j == LastBefore(s, o, "status", i)
    IN IF j = 0 THEN pl[o].status ELSE s.log[j].v

\* the timer was the current player of o when entry i of the history of s
\* was made (the currentPlayer setter assigns `visible` with every change)
TimerActiveAt(s, o, i) ==
    LET j == LastBefore(s, o, "visibilitychange", i)
    IN IF j = 0 THEN pl[o].currentPlayer = timer(o) ELSE s.log[j].v = "false"

\* the places in the history of s at which the timer of o, being the current
\* player, became Ended; a destroyed OffsetPlayer listens no more
Expiries(s, o) ==
    {i \in Notified(s, timer(o), "status") :
        /\ ~pl[o].destroyed
        /\ s.log[i].v = Ended
        /\ TimerActiveAt(s, o, i)}

\* the hooks seekImpl and playImpl of player p invoked after entry i
SoughtOrPlayed(s, p, i) ==
    {j \in Notified(s, p, "hook") :
        j > i /\ s.log[j].v \in {"TickPlayer_seekImpl", "TickPlayer_playImpl"}}

\* C22: in every task that can run on an OffsetPlayer around a TickPlayer:
\* when the timer becomes Ended while it is the current player, the wrapped
\* player becomes the current player at once and visible becomes true; if the
\* OffsetPlayer's status is Playing then, it emits no status change in the
\* rest of the task, the wrapped player is played and is Playing at 0 at the
\* end of the task; otherwise neither seekImpl nor playImpl of the wrapped
\* player is invoked.
C22_HandOver ==
    \A s \in OffsetTaskResults : \A o \in OffsetPlayers : \A i \in Expiries(s, o) :
        /\ i + 1 \in Notified(s, o, "visibilitychange")
        /\ s.log[i + 1].v = "true"
        /\ s.pl[o].currentPlayer = player(o)
        /\ IF StatusAt(s, o, i) = Playing
           THEN /\ \A j \in Notified(s, o, "status") : j < i
                /\ s.pl[o].status = Playing
                /\ \E j \in SoughtOrPlayed(s, player(o), i) :
                       s.log[j].v = "TickPlayer_playImpl"
                /\ s.pl[player(o)].status = Playing
                /\ s.pl[player(o)].currentTime = 0
           ELSE SoughtOrPlayed(s, player(o), i) = {}

\* the timer of a Playing OffsetPlayer is about to reach its end in the next
\* animation frame, which hands over to the wrapped player and plays it; a
\* stop() called instead hands over without playing it
C22_TimerExpiresWhilePlaying ==
    /\ topo = "offset"
    /\ pl[Root].status = Playing
    /\ pl[Root].currentPlayer = timer(Root)
    /\ \E s \in FrameResults :
          /\ Expiries(s, Root) # {}
          /\ s.pl[Root].status = Playing
          /\ s.pl[Root].visible
          /\ s.pl[player(Root)].status = Playing
    /\ \E s \in CallResults :
          /\ \E i \in Expiries(s, Root) : StatusAt(s, Root, i) = Ended
          /\ s.pl[Root].currentPlayer = player(Root)
          /\ s.pl[player(Root)].status = Ended

\* the caller may call, every init() has completed and the OffsetPlayer o has
\* not been destroyed
OffsetCallable(o) ==
    /\ Initialized
    /\ CanCall /\ CallerIdle
    /\ ~pl[o].destroyed

\* C23: for an initialized OffsetPlayer whose status is not Ended: when
\* stop() has completed, the timer and the wrapped player have status Ended,
\* the wrapped player is the current player, visible is true and the status
\* is Ended, whichever child was the current player before.
C23_StopEndsBoth ==
    \A o \in OffsetPlayers :
        OffsetCallable(o) /\ pl[o].status # Ended =>
            LET s == AfterCall(Method(Cur, o, "stop", 0))
            IN /\ Settled(s, FreshId(CallerState))
               /\ s.pl[timer(o)].status = Ended
               /\ s.pl[player(o)].status = Ended
               /\ s.pl[o].currentPlayer = player(o)
               /\ s.pl[o].visible
               /\ s.pl[o].status = Ended

\* stop() is about to be called on an OffsetPlayer that plays its timer, the
\* wrapped player being Ready, and ends both
C23_StoppedOnTimer ==
    /\ topo = "offset"
    /\ OffsetCallable(Root)
    /\ pl[Root].status = Playing
    /\ pl[Root].currentPlayer = timer(Root)
    /\ pl[timer(Root)].status = Playing
    /\ pl[player(Root)].status = Ready
    /\ AfterStop.pl[timer(Root)].status = Ended
    /\ AfterStop.pl[player(Root)].status = Ended
    /\ AfterStop.pl[Root].currentPlayer = player(Root)

AfterSetOffset(o, ms) == AfterCall(Frame("OffsetPlayer_setOffset", o, ms))

\* C24: for an initialized OffsetPlayer: when setOffset(ms) with
\* ms # offset has completed, timer.duration = offset = ms, and the current
\* player is the wrapped player if currentTime was >= ms when setOffset was
\* called, and the timer otherwise.
C24_SetOffsetSwitches ==
    \A o \in OffsetPlayers : \A ms \in Offsets :
        OffsetCallable(o) /\ ms # pl[o].offset =>
            LET s == AfterSetOffset(o, ms)
            IN /\ Settled(s, FreshId(CallerState))
               /\ s.pl[timer(o)].duration = ms
               /\ s.pl[o].offset = ms
               /\ s.pl[o].currentPlayer =
                      IF pl[o].currentTime >= ms THEN player(o) ELSE timer(o)

\* setOffset(ms) is about to be called on a Playing OffsetPlayer with offset
\* 0 at the start of its wrapped player, and makes the timer, with duration
\* ms, the current player
C24_OffsetRaisedAtStart ==
    /\ topo = "offset"
    /\ OffsetCallable(Root)
    /\ pl[Root].offset = 0
    /\ pl[Root].status = Playing
    /\ pl[Root].currentPlayer = player(Root)
    /\ \E ms \in Offsets :
          /\ pl[Root].currentTime < ms
          /\ AfterSetOffset(Root, ms).pl[Root].currentPlayer = timer(Root)
          /\ AfterSetOffset(Root, ms).pl[timer(Root)].duration = ms
          /\ AfterSetOffset(Root, ms).pl[Root].offset = ms

\* C25: in every state an OffsetPlayer that has not been destroyed has
\* duration = timer.duration + player.duration, whatever durations the
\* wrapped player is assigned and whatever offsets are set.
C25_DurationIsSum ==
    \A o \in OffsetPlayers :
        ~pl[o].destroyed =>
            pl[o].duration = pl[timer(o)].duration + pl[player(o)].duration

\* the wrapped player of a Playing OffsetPlayer with offset > 0 has just been
\* assigned another duration
C25_PlayerDurationChanged ==
    /\ topo = "offset"
    /\ probe.op = "durationchange" /\ probe.p = player(Root)
    /\ pl[player(Root)].duration = probe.ms
    /\ pl[Root].offset > 0
    /\ pl[timer(Root)].duration = pl[Root].offset
    /\ pl[Root].status = Playing
    /\ pl[Root].duration = pl[Root].offset + probe.ms

VideoResults ==
    IF mq = <<>>
    THEN {AfterVideo([Frame("VideoPlayer_onEvent", e[1], 0) EXCEPT
                         !.x = e[2], !.y = e[3]]) :
             e \in {p \in VideoPlayers : ~pl[p].destroyed} \X VideoEvents \X (0..1)}
         \cup {AfterVideo([Frame("VideoPlayer_onError", e[1], 0) EXCEPT !.y = e[2]]) :
                  e \in {p \in VideoPlayers : ~pl[p].destroyed} \X (0..1)}
         \cup {AfterVideo(Frame("VideoPlayer_onEnded", p, 0)) :
                  p \in {p \in VideoPlayers : ~pl[p].destroyed}}
         \cup {Run([Cur EXCEPT !.stack = <<susp[k]>>, !.susp = Unpark(@, k)]) :
                  k \in PendingPlays(Cur)}
    ELSE {}

\* every task that changes a status in a tree of ClusterPlayers
ClusterTaskResults == TaskResults \cup VideoResults

\* the place of the first entry ev of player p after place i in the
\* history of s, 0 if there is none
FirstAfter(s, p, ev, i) ==
    LET S == {j \in Notified(s, p, ev) : j > i}
    IN IF S = {} THEN 0 ELSE -Max({-j : j \in S})

\* the status C28 gives a ClusterPlayer whose status was `was`
C28_Status(e, r, was) ==
    CASE e = Ready /\ r \in {Ready, Ended} -> Ready
      [] e = Pause /\ r # Playing -> Pause
      [] e = Buffering /\ r # Pause -> Buffering
      [] e = Playing /\ r \in {Playing, Ended} -> Playing
      [] e = Ended -> r
      [] OTHER -> was

\* C28: in every task that can run on a ClusterPlayer of two VideoPlayers:
\* whenever its listener, not suppressed, calls updateStatus with the
\* emitter's status e and the receptor's status r, as they are after
\* syncSubPlayer has run, the ClusterPlayer's status at the end of the
\* listener is Ready if e = Ready and r is Ready or Ended, Pause if e = Pause
\* and r is not Playing, Buffering if e = Buffering and r is not Pause,
\* Playing if e = Playing and r is Playing or Ended, r if e = Ended, and what
\* it was before in every other case.
C28_UpdateStatusTable ==
    \A s \in ClusterTaskResults : \A c \in Clusters : \A i \in Notified(s, c, "updateStatus") :
        LET j == FirstAfter(s, c, "reaction", i)
        IN /\ j # 0
           /\ \A e, r \in SyncPlayerStatus :
                  s.log[i].v = e \o "/" \o r =>
                      StatusAt(s, c, j) = C28_Status(e, r, StatusAt(s, c, i))

\* the ClusterPlayer and one child are Pause, and the videojs player of the
\* other child, which is Playing, reports that it waits for data:
\* updateStatus is called with Buffering and Pause and assigns no status
C28_BufferingBesidePause ==
    /\ topo = "video"
    /\ pl[Root].status = Pause
    /\ \E s \in VideoResults : \E i \in Notified(s, Root, "updateStatus") :
          /\ s.log[i].v = Buffering \o "/" \o Pause
          /\ s.pl[Root].status = Pause

\* the children of the ClusterPlayers whose listener is registered
Listened == {e \in Players(topo) :
               /\ Shape(topo).parent[e] # 0
               /\ Shape(topo).kind[Shape(topo).parent[e]] = "cluster"
               /\ pl[Shape(topo).parent[e]].listening}

\* those whose parent's listener is not suppressed: the init() of the
\* ClusterPlayer has completed
Heard == {e \in Listened : ~pl[Shape(topo).parent[e]].ignoreSetStatus}

\* the other child of the parent of e
Sibling(e) == Other(Cur, Shape(topo).parent[e], e)

\* the call syncSubPlayer of c makes in the listener that runs for entry i
\* of the history of s, <<"", 0>> if it makes none
IssuedAt(s, c, i) ==
    IF i + 1 \in Notified(s, c, "call")
    THEN <<s.log[i + 1].v, s.log[i + 1].n>>
    ELSE <<"", 0>>

\* the number of calls syncSubPlayer of c makes from entry i of the history
\* of s up to the next status notification of a child of c
IssuedAfter(s, c, i) ==
    LET next == {j \in DOMAIN s.log :
                    /\ j > i
                    /\ s.log[j].ev = "status"
                    /\ s.log[j].p \in {rowPlayer(c), colPlayer(c)}}
    IN Cardinality({j \in Notified(s, c, "call") :
                       j > i /\ \A k \in next : j < k})

\* When a child e in E changes its status to Playing in a task that can
\* run, then, r being the other child: if r is Buffering, syncSubPlayer
\* calls e.ready(), which makes e Ready at once; else if r is Ready and
\* r.duration <= 0 or e.currentTime < r.duration, it calls r.play(), which
\* invokes r's playImpl at once; in every other case it calls nothing.  It
\* never makes a second call.  (A task changes neither currentTime nor
\* duration of a VideoPlayer unless it is its "timeupdate" or
\* "durationchange".)
PlayingPush(E) ==
    \A s \in ClusterTaskResults : \A e \in E :
        \A i \in Notified(s, e, "status") :
            s.log[i].v = Playing =>
                LET c == Shape(topo).parent[e]
                    r == Sibling(e)
                    rs == StatusAt(s, r, i)
                IN /\ IssuedAfter(s, c, i) <= 1
                   /\ CASE rs = Buffering ->
                             /\ IssuedAt(s, c, i) = <<"ready", e>>
                             /\ i + 2 \in Notified(s, e, "status")
                             /\ s.log[i + 2].v = Ready
                        [] rs = Ready /\ (pl[r].duration <= 0
                                            \/ pl[e].currentTime < pl[r].duration) ->
                             /\ IssuedAt(s, c, i) = <<"play", r>>
                             /\ i + 2 \in Notified(s, r, "hook")
                             /\ s.log[i + 2].v = Impl(Cur, r, "play", 0).fn
                        [] OTHER -> IssuedAt(s, c, i) = <<"", 0>>

\* C29: for a ClusterPlayer of two VideoPlayers, whenever a child changes
\* its status to Playing: if the other child is Buffering, the emitter is
\* made Ready; else if the other child is Ready and its duration is <= 0 or
\* the emitter's currentTime is less than its duration, play() is called on
\* the other child; in no other case does syncSubPlayer call an operation
\* of either child.
C29_PlayingPush == PlayingPush(Listened)

\* the same of the children of a ClusterPlayer whose init() has completed
C29_PlayingPushAfterInit == PlayingPush(Heard)

\* one child is Ready, has a duration, and the other child, whose
\* currentTime has reached that duration, starts to play: the first is not
\* played
C29_PastTheShorter ==
    /\ topo = "video"
    /\ 1 \in Heard
    /\ pl[2].status = Ready
    /\ pl[2].duration > 0
    /\ pl[1].currentTime >= pl[2].duration
    /\ \E s \in VideoResults : \E i \in Notified(s, 1, "status") :
          /\ s.log[i].v = Playing
          /\ IssuedAt(s, Root, i) = <<"", 0>>

\* one child is Buffering and the other starts to play: it is made Ready
C29_BackToReady ==
    /\ topo = "video"
    /\ 1 \in Heard
    /\ pl[2].status = Buffering
    /\ \E s \in VideoResults : \E i \in Notified(s, 1, "status") :
          /\ s.log[i].v = Playing
          /\ IssuedAt(s, Root, i) = <<"ready", 1>>
          /\ s.pl[1].status = Ready

\* the entries of the history of s, after entry i, that the listener of c
\* makes at its end when it has run for a change to Buffering beside a
\* Playing receptor, the ClusterPlayer then having the status st
BufferingReactions(s, c, i, st) ==
    {j \in Notified(s, c, "reaction") :
        j > i /\ s.log[j].v = Buffering \o "/" \o Playing \o "/" \o st}

\* When a child in E changes its status to Buffering, in a task that can
\* run, while the other child is Playing: syncSubPlayer calls ready() on the
\* other child, which makes it Ready at once, and at the end of the listener
\* the other child is Ready and the ClusterPlayer is Buffering.
BufferingPush(E) ==
    \A s \in ClusterTaskResults : \A e \in E :
        \A i \in Notified(s, e, "status") :
            (s.log[i].v = Buffering /\ StatusAt(s, Sibling(e), i) = Playing) =>
                LET c == Shape(topo).parent[e]
                    r == Sibling(e)
                IN /\ IssuedAt(s, c, i) = <<"ready", r>>
                   /\ i + 2 \in Notified(s, r, "status")
                   /\ s.log[i + 2].v = Ready
                   /\ BufferingReactions(s, c, i, Buffering) # {}
                   /\ \A st \in SyncPlayerStatus \ {Buffering} :
                          BufferingReactions(s, c, i, st) = {}
                   /\ \A j \in BufferingReactions(s, c, i, Buffering) :
                          StatusAt(s, r, j) = Ready

\* C30: for a ClusterPlayer of two VideoPlayers, whenever a child changes
\* its status to Buffering while the other child is Playing, the other
\* child is made Ready and the ClusterPlayer's status is Buffering when the
\* listener has run.
C30_BufferingPush == BufferingPush(Listened)

\* the same of the children of a ClusterPlayer whose init() has completed
C30_BufferingPushAfterInit == BufferingPush(Heard)

\* both children and the ClusterPlayer are Playing, and the videojs player
\* of one child reports that it waits for data
C30_OneChildStalls ==
    /\ topo = "video"
    /\ 1 \in Heard
    /\ pl[1].status = Playing /\ pl[2].status = Playing /\ pl[Root].status = Playing
    /\ \E s \in VideoResults : \E i \in Notified(s, 1, "status") :
          /\ s.log[i].v = Buffering
          /\ s.pl[1].status = Buffering
          /\ s.pl[2].status = Ready
          /\ s.pl[Root].status = Buffering

\* the first entry after entry i of the history of s that the listener of c
\* makes at its end when it has run for a change to Pause beside a receptor
\* of status rs, 0 if there is none
PauseReaction(s, c, i, rs) ==
    LET J == {j \in Notified(s, c, "reaction") :
                 /\ j > i
                 /\ \E st \in SyncPlayerStatus :
                        s.log[j].v = Pause \o "/" \o rs \o "/" \o st}
    IN IF J = {} THEN 0 ELSE -Max({-j : j \in J})

\* the caller's next call, when it is pause() on a child of a ClusterPlayer
\* instead of a call on the root
ChildPauseResults ==
    IF CanCall /\ CallerIdle
    THEN {AfterCall(Method(Cur, e, "pause", 0)) : e \in {e \in Listened : ~pl[e].destroyed}}
    ELSE {}

\* When a child e in E changes its status to Pause, in a task that can run,
\* while the other child r is Playing or Buffering: syncSubPlayer calls
\* r.pause(), and at the end of the listener neither child is Playing or
\* Buffering.
PausePush(E) ==
    \A s \in ClusterTaskResults \cup ChildPauseResults : \A e \in E :
        \A i \in Notified(s, e, "status") :
            LET c == Shape(topo).parent[e]
                r == Sibling(e)
                rs == StatusAt(s, r, i)
                j == PauseReaction(s, c, i, rs)
            IN (s.log[i].v = Pause /\ rs \in {Playing, Buffering}) =>
                   /\ IssuedAt(s, c, i) = <<"pause", r>>
                   /\ j # 0
                   /\ StatusAt(s, e, j) \notin {Playing, Buffering}
                   /\ StatusAt(s, r, j) \notin {Playing, Buffering}

\* C31: whenever a child of a ClusterPlayer changes its status to Pause
\* while the other child is Playing or Buffering, pause() is called on the
\* other child, and when the listener has run neither child is Playing or
\* Buffering.
C31_PausePush == PausePush(Listened)

\* the same of the children of a ClusterPlayer whose init() has completed
C31_PausePushAfterInit == PausePush(Heard)

\* both children of an initialized ClusterPlayer are Playing and pause() on
\* the ClusterPlayer pauses the first: the listener pauses the second before
\* invokeSubPlayers reaches it
C31_PausedBesidePlaying ==
    /\ topo = "cluster"
    /\ 1 \in Heard
    /\ pl[1].status = Playing /\ pl[2].status = Playing
    /\ \E s \in CallResults : \E i \in Notified(s, 1, "status") :
          /\ s.log[i].v = Pause
          /\ IssuedAt(s, Root, i) = <<"pause", 2>>
          /\ s.pl[2].status = Pause

\* the places in the history of s at which playImpl of the ClusterPlayer c is
\* invoked, which calls play() on both children: every seekImpl of a child
\* that runs in s has been invoked before
Replayed(s, c) ==
    {i \in Notified(s, c, "hook") :
        /\ s.log[i].v = "ClusterPlayer_impl"
        /\ \A q \in {rowPlayer(c), colPlayer(c)} : \A j \in Notified(s, q, "hook") :
               s.log[j].v = Impl(Cur, q, "seek", 0).fn => j < i}

\* the children of the ClusterPlayer c that are Playing or Buffering
PlayingChildren(s, c) == {q \in {rowPlayer(c), colPlayer(c)} : isPlaying(s, q)}

\* When seek(ms), ms less than the duration of either child, is called on
\* the root ClusterPlayer in a state of P, and completes without waiting for
\* a later task: playImpl of the ClusterPlayer has called play() on both
\* children after their seeks, and both children are Playing or Buffering at
\* completion.
SeekResumesPlay(P) ==
    (/\ topo \in {"cluster", "video"}
     /\ CanCall /\ CallerIdle /\ ~pl[Root].destroyed
     /\ P) =>
        \A ms \in SeekArgs :
            (/\ ms < pl[rowPlayer(Root)].duration
             /\ ms < pl[colPlayer(Root)].duration) =>
                LET s == AfterSeek(ms)
                IN Settled(s, FreshId(CallerState)) =>
                       /\ Replayed(s, Root) # {}
                       /\ PlayingChildren(s, Root) = {rowPlayer(Root), colPlayer(Root)}

\* C32: for a ClusterPlayer of two TickPlayers or two VideoPlayers: if a
\* child is Playing or Buffering when seek(ms) is called on the ClusterPlayer
\* with ms less than the duration of either child, then play() is called on
\* both children after their seeks and both children are Playing or
\* Buffering when seek() has completed.
C32_SeekResumesPlay == SeekResumesPlay(PlayingChildren(Cur, Root) # {})

\* the same when the ClusterPlayer itself is Playing or Buffering
C32_SeekResumesPlayingCluster == SeekResumesPlay(isPlaying(Cur, Root))

\* a ClusterPlayer of two TickPlayers is Playing, one child has ended, and
\* seek(ms) makes that child play again
C32_EndedChildReplayed ==
    /\ topo = "cluster"
    /\ CanCall /\ CallerIdle /\ ~pl[Root].destroyed
    /\ pl[Root].status = Playing
    /\ pl[2].status = Ended
    /\ \E ms \in SeekArgs :
          /\ ms < pl[2].duration
          /\ Settled(AfterSeek(ms), FreshId(CallerState))
          /\ Replayed(AfterSeek(ms), Root) # {}
          /\ AfterSeek(ms).pl[2].status = Playing

\* C33: a TickPlayer with duration > 0 that is Playing, and on which
\* neither pause() nor ready() nor seek() nor destroy() is called, in the end
\* has status Ended, currentTime = duration and no animation frame
\* requested, provided the frames it requests are run.
C33_PlayingReachesEnded ==
    (pl[1].status = Playing /\ pl[1].duration > 0)
        ~> (/\ pl[1].status = Ended
            /\ pl[1].currentTime = pl[1].duration
            /\ pl[1].playRafTicket # "live")

\* the frame about to run finds currentTime past the duration: the
\* TickPlayer stops itself and is left Ended at its duration, with no frame
\* requested
C33_LastFrame ==
    /\ topo = "tick"
    /\ pl[1].status = Playing
    /\ pl[1].playRafTicket = "live"
    /\ \E s \in FrameResults :
          /\ \E i \in Notified(s, 1, "hook") : s.log[i].v = "TickPlayer_stopImpl"
          /\ s.pl[1].status = Ended
          /\ s.pl[1].currentTime = pl[1].duration
          /\ s.pl[1].currentTime < pl[1].currentTime + 2 * DriftThreshold
          /\ s.pl[1].playRafTicket = "NaN"

\* the state in which the caller's `await` of pause() or ready() on the
\* root continues
AfterIdling(op) == AfterCall(Method(Cur, Root, op, 0))

\* C34: in every state in which no operation is in flight, a TickPlayer
\* whose status is Ready, Pause or Ended has no animation frame requested,
\* so that no frame advances its currentTime; and pause() and ready(), called
\* on an initialized TickPlayer, complete with currentTime as it was and no
\* frame requested.
C34_IdleHasNoFrame ==
    /\ AtRest =>
          \A p \in TickPlayers :
              pl[p].status \in {Ready, Pause, Ended} =>
                  /\ pl[p].playRafTicket # "live"
                  /\ \A s \in FrameResults : s.pl[p].currentTime = pl[p].currentTime
    /\ (BaseCallable /\ topo = "tick") =>
          \A op \in {"pause", "ready"} :
              /\ Settled(AfterIdling(op), FreshId(CallerState))
              /\ AfterIdling(op).pl[Root].currentTime = pl[Root].currentTime
              /\ AfterIdling(op).pl[Root].playRafTicket # "live"

\* a TickPlayer that plays, its time advanced by a frame, is about to be
\* paused: the frame it has requested is cancelled and its time kept
C34_PausedWhilePlaying ==
    /\ BaseCallable /\ topo = "tick"
    /\ pl[Root].status = Playing
    /\ pl[Root].playRafTicket = "live"
    /\ pl[Root].currentTime > 0
    /\ AfterIdling("pause").pl[Root].status = Pause
    /\ AfterIdling("pause").pl[Root].playRafTicket = "NaN"
    /\ AfterIdling("pause").pl[Root].currentTime = pl[Root].currentTime

-----------------------------------------------------------------------------
(* One ClusterPlayer of two VideoPlayers whose videojs players may fail *)

\* the values assigned to playbackRate: 1 and 2
BackendRates == {10000, 20000}

\* the state after the task in which the caller makes the call c on the
\* root, the commands of the videojs players failing in it or not
BackendCalled(c, fails) ==
    RunTask([CallerState EXCEPT !.fails = fails], Method(Cur, Root, c[1], c[2]), "caller")

\* the state after the task in which the promise k of video.play() is
\* rejected or resolved
BackendSettled(k, fails) ==
    Run([Cur EXCEPT !.stack = <<susp[k]>>, !.susp = Unpark(@, k), !.fails = fails])

\* the state after `root.playbackRate = value`
BackendRated(value, fails) ==
    RunTask([Cur EXCEPT !.fails = fails], RateFrame(Root, value), "none")

\* `await root.ready()` / play() / pause() / stop() / seek(ms)
BackendCall ==
    \E c \in Calls : \E fails \in BOOLEAN :
        /\ CanCall
        /\ ~pl[Root].destroyed
        /\ CallerIdle
        /\ LET k == FreshId(CallerState)
               s == BackendCalled(c, fails)
           IN /\ Commit(s)
              /\ probe' = [st |-> IF Settled(s, k) THEN "done" ELSE "running",
                           op |-> c[1], p |-> Root, ms |-> c[2], id |-> k,
                           clean |-> Initialized]
        /\ UNCHANGED initQ

\* the videojs player settles a promise video.play() returned
BackendSettle ==
    \E k \in PendingPlays(Cur) : \E fails \in BOOLEAN :
        /\ mq = <<>>
        /\ LET s == BackendSettled(k, fails)
           IN /\ Commit(s)
              /\ probe' = IF probe.st = "running" THEN Observe(s, probe) ELSE NoProbe
        /\ UNCHANGED initQ

\* `root.playbackRate = value`
BackendRate ==
    \E value \in BackendRates : \E fails \in BOOLEAN :
        /\ mq = <<>>
        /\ ~pl[Root].destroyed
        /\ LET s == BackendRated(value, fails)
           IN /\ Commit(s)
              /\ probe' = IF probe.st = "running" THEN Observe(s, probe) ELSE NoProbe
        /\ UNCHANGED initQ

NextBackend ==
    \/ InitTimeout
    \/ Continue
    \/ BackendCall
    \/ BackendSettle
    \/ BackendRate
    \/ VideoEvent
SpecBackend == InitVideo /\ [][NextBackend]_vars

\* the notifications of "status" and "ratechange" in the history of s
Notifications(s) ==
    SelectSeq(s.log, LAMBDA e : e.ev \in {"status", "ratechange"})

\* In s, where the commands of the videojs players fail, no exception leaves
\* a hook, and every player has the status, and has emitted the
\* notifications, that it has in t, where the commands succeed
Swallowed(s, t) ==
    /\ \A i \in DOMAIN s.log : s.log[i].ev # "uncaught"
    /\ \A p \in Players(topo) :
           /\ s.pl[p].status = t.pl[p].status
           /\ s.pl[p].playbackRate = t.pl[p].playbackRate
    /\ Notifications(s) = Notifications(t)

\* C35: for a ClusterPlayer of two VideoPlayers: when the commands of the
\* videojs players throw, or the promise of video.play() is rejected, then
\* ready(), play(), pause(), stop() and seek(ms) called on the ClusterPlayer
\* complete and reject nothing to the caller, the assignment of playbackRate
\* returns, and every player has the status and the rate, and has emitted the
\* notifications, of the same operation with commands that succeed.
C35_BackendFailureSwallowed ==
    topo = "video" =>
        /\ (CanCall /\ CallerIdle /\ ~pl[Root].destroyed) =>
              \A c \in Calls :
                  /\ Settled(BackendCalled(c, TRUE), FreshId(CallerState))
                  /\ Swallowed(BackendCalled(c, TRUE), BackendCalled(c, FALSE))
        /\ mq = <<>> =>
              /\ \A k \in PendingPlays(Cur) :
                     Swallowed(BackendSettled(k, TRUE), BackendSettled(k, FALSE))
              /\ \A value \in BackendRates :
                     /\ BackendRated(value, TRUE).stack = <<>>
                     /\ Swallowed(BackendRated(value, TRUE), BackendRated(value, FALSE))

\* both VideoPlayers play and pause() is called on the ClusterPlayer while
\* video.pause() throws: both catch it, both are Pause at completion
C35_PauseRejected ==
    /\ topo = "video"
    /\ CanCall /\ CallerIdle /\ ~pl[Root].destroyed
    /\ pl[1].status = Playing /\ pl[2].status = Playing
    /\ LET s == BackendCalled(<<"pause", 0>>, TRUE)
       IN /\ \A p \in {1, 2} : \E i \in Notified(s, p, "caught") :
                 /\ s.log[i].v = "VideoPlayer_pauseImpl"
                 /\ LastBefore(s, p, "status", i) # 0
          /\ Settled(s, FreshId(CallerState))
          /\ s.pl[1].status = Pause /\ s.pl[2].status = Pause

\* the state after `root.playbackRate = value` has returned
AfterRate(value) == RunTask(Cur, RateFrame(Root, value), "none")

\* the stored playbackRate of p before entry i of the history of s, which is
\* a "ratechange" of p: every assignment of the stored rate is followed at
\* once by the notification, which records the rate then stored
RateBefore(s, p, i) ==
    LET j == LastBefore(s, p, "ratechange", i)
    IN IF j = 0 THEN pl[p].playbackRate ELSE s.log[j].n

\* C36: when a playbackRate that differs from the stored one is assigned to
\* a ClusterPlayer or OffsetPlayer, the player emits exactly one
\* "ratechange", and each "ratechange" it emits follows an assignment that
\* changed its stored rate.
C36_OneRatechange ==
    (mq = <<>> /\ Kind(Cur, Root) \in {"cluster", "offset"} /\ ~pl[Root].destroyed) =>
        \A value \in Rates :
            ~isEqual(pl[Root].playbackRate, normalize(value)) =>
                LET s == AfterRate(value)
                IN /\ Cardinality(Notified(s, Root, "ratechange")) = 1
                   /\ \A i \in Notified(s, Root, "ratechange") :
                          s.log[i].n # RateBefore(s, Root, i)

\* C37: in every state in which no operation is in flight, the current
\* player of an OffsetPlayer whose status is Playing is Playing or Buffering.
C37_ActiveChildPlays ==
    AtRest =>
        \A o \in OffsetPlayers :
            (pl[o].status = Playing /\ ~pl[o].destroyed) =>
                isPlaying(Cur, pl[o].currentPlayer)

\* the synchronous code of the running task: up to the point at which the
\* call stack is empty, with no microtask run
RECURSIVE SyncPart(_)
SyncPart(s) == IF s.stack = <<>> THEN s ELSE SyncPart(Step(s))

\* the caller calls g and does not await it: g has run up to its first
\* pending await
Unawaited(s, g) ==
    SyncPart([s EXCEPT !.stack = <<[g EXCEPT !.id = FreshId(s), !.ret = "caller"]>>])

\* every microtask has run, the continuations of the caller making no
\* further call
RECURSIVE Drained(_)
Drained(s) ==
    LET t == Run(s)
    IN IF t.mq = <<>> THEN t ELSE Drained(Resumed(t))

\* `c.seek(ms); c.pause()` without await, before any microtask runs
SeekStarted(ms) == Unawaited(CallerState, Method(Cur, Root, "seek", ms))
SeekThenPause(ms) ==
    Drained(Unawaited(SeekStarted(ms), Method(SeekStarted(ms), Root, "pause", 0)))

\* C38: for an initialized ClusterPlayer of two TickPlayers that is Playing
\* or Buffering: if pause() is called on it while a seek(ms) called on it is
\* awaiting its children, then, both calls having completed, neither child
\* is Playing or Buffering and the ClusterPlayer is neither.
C38_PauseDuringSeek ==
    (/\ topo = "cluster"
     /\ Callable /\ CallerIdle
     /\ isPlaying(Cur, Root)) =>
        \A ms \in SeekArgs :
            DOMAIN SeekStarted(ms).susp # {} =>
                LET s == SeekThenPause(ms)
                IN /\ DOMAIN s.susp = {}
                   /\ PlayingChildren(s, Root) = {}
                   /\ ~isPlaying(s, Root)

-----------------------------------------------------------------------------
(* The synchronous cascade of one status assignment *)

\* at most n steps of the synchronous code of the running task
RECURSIVE SyncSteps(_, _)
SyncSteps(s, n) ==
    IF n = 0 \/ s.stack = <<>> THEN s ELSE SyncSteps(Step(s), n - 1)

\* `p.status = v`, assigned from outside while no code runs, with the
\* listeners it reaches and all they call synchronously
Cascade(p, v) ==
    SyncSteps([CallerState EXCEPT
                 !.stack = <<[StatusFrame(p, v) EXCEPT !.id = FreshId(CallerState)]>>],
              CascadeSteps)

\* the players whose status is assigned a new value in the cascade
Assigned(s) == {s.log[i].p : i \in {j \in DOMAIN s.log : s.log[j].ev = "status"}}

\* C39: in a tree of ClusterPlayers and an OffsetPlayer over TickPlayers, in
\* every reachable state and for every player p and status v, the synchronous
\* code that the assignment `p.status = v` sets off (listeners, syncSubPlayer,
\* updateStatus and the methods they call, up to their first pending await)
\* returns to the assignment within CascadeSteps steps.
C39_CascadeTerminates ==
    \A p \in Players(topo), v \in SyncPlayerStatus : Cascade(p, v).stack = <<>>

\* a status assigned to a leaf changes the status of three further players
\* before the assignment returns
C39_CrossPushed ==
    \E p \in Players(topo), v \in SyncPlayerStatus :
        /\ Kind(Cur, p) = "tick"
        /\ Cascade(p, v).stack = <<>>
        /\ Cardinality(Assigned(Cascade(p, v))) >= 4

-----------------------------------------------------------------------------
(* One OffsetPlayer around a TickPlayer that is readied, played and paused, *)
(* with animation frames that may come late                                 *)

\* the start of a task that calls g from the event loop
Begin(s, g, ret) == [s EXCEPT !.stack = <<[g EXCEPT !.id = FreshId(s), !.ret = ret]>>]

\* the playRaf of p runs k units after the frame before it
FrameAt(p, k) == Frame("TickPlayer_playRaf", p, pl[p].currentTime + k * DriftThreshold)

LateFrame ==
    \E p \in Players(topo) : \E k \in 1..MaxLate :
        /\ mq = <<>>
        /\ Kind(Cur, p) = "tick"
        /\ pl[p].playRafTicket = "live"
        /\ LET s == Run(Begin(Cur, FrameAt(p, k), "none"))
           IN /\ Commit(s)
              /\ probe' = IF probe.st = "running" THEN Observe(s, probe) ELSE NoProbe
        /\ UNCHANGED initQ

NextLate ==
    \/ InitTimeout
    \/ Continue
    \/ Call_ready
    \/ Call_play
    \/ Call_pause
    \/ LateFrame

SpecLate == InitOffset /\ [][NextLate]_vars

\* the tasks that can start: an animation frame, a call of ready(), play()
\* or pause() on the root, the continuation of the caller
Begun ==
    (IF mq = <<>>
     THEN {Begin(Cur, FrameAt(pk[1], pk[2]), "none") :
              pk \in {p \in TickPlayers : pl[p].playRafTicket = "live"} \X (1..MaxLate)}
     ELSE {})
    \cup (IF CanCall /\ CallerIdle /\ ~pl[Root].destroyed
          THEN {Begin(CallerState, Method(Cur, Root, op, 0), "caller") :
                   op \in {"ready", "play", "pause"}}
          ELSE {})
    \cup (IF mq # <<>> /\ Head(mq).t = "caller" THEN {CallerState} ELSE {})

\* from s to the end of the task, no step lowers the currentTime of o while
\* o is Playing
RECURSIVE Rising(_, _)
Rising(s, o) ==
    \/ Done(s)
    \/ /\ s.pl[o].status = Playing => Advance(s).pl[o].currentTime >= s.pl[o].currentTime
       /\ Rising(Advance(s), o)

\* C40: an OffsetPlayer on which only ready(), play() and pause() are ever
\* called: in every task, while its status is Playing, no "timeupdate" of it
\* has a currentTime lower than the one before, the hand-over from the timer
\* to the wrapped player included.
C40_TimeNeverDecreases ==
    \A o \in OffsetPlayers : \A b \in Begun : Rising(b, o)

====
